---- MODULE Spec2Model ----
(***************************************************************************)
(* Model of the RADIUS synchronisation service (radius.service.ts) and of  *)
(* the helpers of radius-utils.ts it calls.                                *)
(*                                                                         *)
(* Strings that the code computes (usernames, group names, attribute       *)
(* values) are sequences of one-character strings, so that concatenation,  *)
(* upper-casing and number formatting are modelled by what they do.        *)
(* An optional field is a sequence of length 0 (null / undefined) or 1.    *)
(***************************************************************************)
EXTENDS Integers, Sequences, FiniteSets, Bags, TLC

VARIABLES
    db,        \* the committed rows: table name -> bag of rows
    last,      \* the call that completed (or began) last
    pre,       \* the committed rows when that call was made
    trk,       \* the run of consecutive calls being followed, and the rows before it
    pc,        \* per connection: index of the next statement of its transaction (0: idle)
    call,      \* per connection: the call it is running
    dels,      \* per connection: committed rows its open transaction has deleted
    ins,       \* per connection: rows its open transaction has inserted
    existing,  \* per connection: result of the transaction's findFirst
    outcome,   \* per connection: how its last call ended
    clock,     \* the wall clock (Date.now()), in milliseconds
    wire,      \* the control requests the last call sent to NAS devices, with their outcomes
    ret,       \* how the last call ended: the value it returned or the error it threw
    hist,      \* the call made before the last one, and how it ended
    biz,       \* the committed rows of the business tables (vouchers, one-time codes)
    task       \* per caller: the handler it is running step by step, and its locals

vars == <<db, last, pre, trk, pc, call, dels, ins, existing, outcome,
          clock, wire, ret, hist, biz, task>>

----------------------------------------------------------------------------
(* Bounds *)

\* No caller makes more calls of a handler followed step by step than this.
MaxCalls == 2

\* No table ever holds more rows than this (guards the model against
\* unbounded growth; the operations below never come near it).
MaxRows == 12

\* The wall clock stops here (20 minutes, in milliseconds).
MaxClock == 1200000

\* The longest local username and plan id handed to the naming functions.
MaxNameLen == 3

----------------------------------------------------------------------------
(* Strings and optional values *)

Null == <<>>
Some(v) == <<v>>

\* JavaScript truthiness of an optional string: neither null nor "".
TruthyStr(o) == Len(o) = 1 /\ Len(o[1]) > 0
\* JavaScript truthiness of an optional number: neither null nor 0.
TruthyNum(o) == Len(o) = 1 /\ o[1] # 0
\* JavaScript truthiness of an optional object (a Date): not null.
TruthyObj(o) == Len(o) = 1

LowerAlphabet == <<"a","b","c","d","e","f","g","h","i","j","k","l","m",
                   "n","o","p","q","r","s","t","u","v","w","x","y","z">>
UpperAlphabet == <<"A","B","C","D","E","F","G","H","I","J","K","L","M",
                   "N","O","P","Q","R","S","T","U","V","W","X","Y","Z">>

UpperChar(c) ==
    IF \E i \in 1..Len(LowerAlphabet) : LowerAlphabet[i] = c
    THEN UpperAlphabet[CHOOSE i \in 1..Len(LowerAlphabet) : LowerAlphabet[i] = c]
    ELSE c

\* String.prototype.toUpperCase
toUpperCase(s) == [i \in 1..Len(s) |-> UpperChar(s[i])]

DigitChars == <<"0","1","2","3","4","5","6","7","8","9">>

RECURSIVE NatToStr(_)
\* String(n) and `${n}` for a non-negative integer
NatToStr(n) ==
    IF n < 10 THEN <<DigitChars[n + 1]>>
    ELSE NatToStr(n \div 10) \o <<DigitChars[(n % 10) + 1]>>

----------------------------------------------------------------------------
(* radius-utils.ts *)

\* Variant: the two parts are joined without the separator.
buildRadiusUsernameNoSeparator(tenantSlug, username) == tenantSlug \o username

buildRadiusUsername(tenantSlug, username) == tenantSlug \o <<"_">> \o username

buildRadiusGroupname(tenantSlug, planId) == tenantSlug \o <<"_">> \o planId

RECURSIVE split(_, _)
\* String.prototype.split(separator), for a one-character separator
split(str, sep) ==
    IF \A i \in 1..Len(str) : str[i] # sep THEN <<str>>
    ELSE LET i == CHOOSE k \in 1..Len(str) :
                      str[k] = sep /\ \A j \in 1..(k - 1) : str[j] # sep
         IN  <<SubSeq(str, 1, i - 1)>> \o split(SubSeq(str, i + 1, Len(str)), sep)

RECURSIVE join(_, _)
\* Array.prototype.join(separator)
join(parts, sep) ==
    IF parts = <<>> THEN <<>>
    ELSE IF Len(parts) = 1 THEN parts[1]
    ELSE parts[1] \o <<sep>> \o join(Tail(parts), sep)

\* Variant: what follows the tenant slug up to the next underscore.
extractSecondPart(radiusUsername) ==
    LET parts == split(radiusUsername, "_")
    IN  IF Len(parts) >= 2 THEN parts[2] ELSE <<>>

\* parts = split("_"); parts.shift(); parts.join("_")
extractSubscriberUsername(radiusUsername) ==
    join(Tail(split(radiusUsername, "_")), "_")

\* Template-literal rendering of two speeds: `${a}${unit}/${b}${unit}`
SpeedPair(a, b, unit) == NatToStr(a) \o unit \o <<"/">> \o NatToStr(b) \o unit

\* Variant: the burst fields are tested for presence, not for being non-zero.
buildMikroTikRateLimitWhenPresent(plan) ==
    LET unit == IF plan.speedUnit = "MBPS" THEN <<"M">> ELSE <<"k">>
        base == SpeedPair(plan.downloadSpeed, plan.uploadSpeed, unit)
    IN  IF /\ plan.burstDownloadSpeed # Null
           /\ plan.burstUploadSpeed # Null
           /\ plan.burstTime # Null
        THEN LET threshold == IF TruthyNum(plan.burstThreshold)
                              THEN NatToStr(plan.burstThreshold[1]) \o <<"k">>
                              ELSE <<"0">>
                 time == NatToStr(plan.burstTime[1]) \o <<"s">>
             IN  base \o <<" ">>
                 \o SpeedPair(plan.burstDownloadSpeed[1], plan.burstUploadSpeed[1], unit)
                 \o <<" ">> \o threshold \o <<"/">> \o threshold
                 \o <<" ">> \o time \o <<"/">> \o time
                 \o <<" ">> \o NatToStr(plan.priority)
        ELSE base

buildMikroTikRateLimit(plan) ==
    LET unit == IF plan.speedUnit = "MBPS" THEN <<"M">> ELSE <<"k">>
        base == SpeedPair(plan.downloadSpeed, plan.uploadSpeed, unit)
    IN  IF /\ TruthyNum(plan.burstDownloadSpeed)
           /\ TruthyNum(plan.burstUploadSpeed)
           /\ TruthyNum(plan.burstTime)
        THEN LET threshold == IF TruthyNum(plan.burstThreshold)
                              THEN NatToStr(plan.burstThreshold[1]) \o <<"k">>
                              ELSE <<"0">>
                 time == NatToStr(plan.burstTime[1]) \o <<"s">>
             IN  base \o <<" ">>
                 \o SpeedPair(plan.burstDownloadSpeed[1], plan.burstUploadSpeed[1], unit)
                 \o <<" ">> \o threshold \o <<"/">> \o threshold
                 \o <<" ">> \o time \o <<"/">> \o time
                 \o <<" ">> \o NatToStr(plan.priority)
        ELSE base

\* Variant: the session timeout is emitted for every validity unit.
planToRadiusAttributesAlwaysTimeout(plan) ==
    <<[attribute |-> "Mikrotik-Rate-Limit", priority |-> 1,
       value |-> buildMikroTikRateLimit(plan)]>>
    \o (IF TruthyStr(plan.poolName)
        THEN <<[attribute |-> "Framed-Pool", priority |-> 2, value |-> plan.poolName[1]]>>
        ELSE <<>>)
    \o <<[attribute |-> "Session-Timeout", priority |-> 3,
          value |-> NatToStr(plan.validityDays * 3600)]>>

planToRadiusAttributes(plan) ==
    <<[attribute |-> "Mikrotik-Rate-Limit", priority |-> 1,
       value |-> buildMikroTikRateLimit(plan)]>>
    \o (IF TruthyStr(plan.poolName)
        THEN <<[attribute |-> "Framed-Pool", priority |-> 2, value |-> plan.poolName[1]]>>
        ELSE <<>>)
    \o (IF plan.validityUnit = "HOURS"
        THEN <<[attribute |-> "Session-Timeout", priority |-> 3,
                value |-> NatToStr(plan.validityDays * 3600)]>>
        ELSE <<>>)

----------------------------------------------------------------------------
(* The relational store *)

Tables == {"radcheck", "radreply", "radusergroup", "radgroupcheck", "radgroupreply",
           "nas", "radacct"}

EmptyDb == [t \in Tables |-> EmptyBag]

\* A where-clause is a record of column values; a row matches when it agrees
\* on every column of the clause.
Matches(row, w) == \A f \in DOMAIN w : row[f] = w[f]

MatchingRows(bag, w) ==
    LET hit == {r \in BagToSet(bag) : Matches(r, w)}
    IN  [r \in hit |-> bag[r]]

\* deleteMany on a bag of rows
DeleteRows(bag, w) ==
    LET keep == {r \in BagToSet(bag) : ~Matches(r, w)}
    IN  [r \in keep |-> bag[r]]

\* create on a bag of rows: the tables have no uniqueness constraint on these
\* columns (the key is a serial id), so a second identical row is a second row.
InsertRow(bag, row) == bag (+) SetToBag({row})

----------------------------------------------------------------------------
(* Statements of a transaction *)

StDeleteMany(t, w) == [k |-> "deleteMany", t |-> t, w |-> w]
StCreate(t, row)   == [k |-> "create", row |-> row, t |-> t]
StFindFirst(t, w)  == [k |-> "findFirst", t |-> t, w |-> w]
\* create guarded by the preceding findFirst having found nothing
StCreateIfNone(t, row) == [k |-> "createIfNone", row |-> row, t |-> t]

\* The state of an open transaction: what it has deleted of the committed
\* rows, what it has inserted, and the result of its findFirst.
NoWrites == [dels |-> EmptyDb, existing |-> FALSE, ins |-> EmptyDb]

\* What a statement of the transaction sees: the committed rows, less its own
\* deletes, plus its own inserts.
TxView(d, x) == [t \in Tables |-> (d[t] (-) x.dels[t]) (+) x.ins[t]]

ExecStmt(st, d, x) ==
    CASE st.k = "deleteMany" ->
           [x EXCEPT !.dels[st.t] = @ (+) MatchingRows(d[st.t] (-) x.dels[st.t], st.w),
                     !.ins[st.t]  = DeleteRows(@, st.w)]
      [] st.k = "create" ->
           [x EXCEPT !.ins[st.t] = InsertRow(@, st.row)]
      [] st.k = "findFirst" ->
           [x EXCEPT !.existing =
                (\E r \in BagToSet(TxView(d, x)[st.t]) : Matches(r, st.w))]
      [] st.k = "createIfNone" ->
           IF x.existing THEN x
           ELSE [x EXCEPT !.ins[st.t] = InsertRow(@, st.row)]

RECURSIVE RunFrom(_, _, _, _)
RunFrom(prog, i, d, x) ==
    IF i > Len(prog) THEN x
    ELSE RunFrom(prog, i + 1, d, ExecStmt(prog[i], d, x))

\* COMMIT: the transaction's deletes and inserts become the committed rows.
Commit(d, x) == TxView(d, x)

\* prisma.$transaction run to completion with no other connection active.
RunTx(prog, d) == Commit(d, RunFrom(prog, 1, d, NoWrites))

----------------------------------------------------------------------------
(* radius.service.ts: rows and formatting *)

MonthNames == << <<"J","a","n">>, <<"F","e","b">>, <<"M","a","r">>, <<"A","p","r">>,
                 <<"M","a","y">>, <<"J","u","n">>, <<"J","u","l">>, <<"A","u","g">>,
                 <<"S","e","p">>, <<"O","c","t">>, <<"N","o","v">>, <<"D","e","c">> >>

\* A Date is [year, month (getMonth: 0..11), day (getDate: 1..31)].
formatRadiusExpiration(date) ==
    MonthNames[date.month + 1] \o <<" ">> \o NatToStr(date.day) \o <<" ">>
        \o NatToStr(date.year) \o <<" ","2","3",":","5","9",":","5","9">>

Reject == <<"R","e","j","e","c","t">>

CheckRow(u, attr, value) ==
    [attribute |-> attr, op |-> ":=", username |-> u, value |-> value]

ReplyRow(u, attr, value) ==
    [attribute |-> attr, op |-> ":=", username |-> u, value |-> value]

UserGroupRow(u, g) == [groupname |-> g, priority |-> 1, username |-> u]


\* Variant: the Expiration row is inserted without deleting the old one.
ExpirationStmtsNoDelete(u, subscriber) ==
    IF TruthyObj(subscriber.expiryDate)
    THEN <<StCreate("radcheck",
             CheckRow(u, "Expiration", formatRadiusExpiration(subscriber.expiryDate[1])))>>
    ELSE <<>>

\* Delete the (username, attribute) check rows, then insert one when the
\* field is set: the Expiration block of syncSubscriberAuth and
\* enableSubscriberRadius.
ExpirationStmts(u, subscriber) ==
    <<StDeleteMany("radcheck", [attribute |-> "Expiration", username |-> u])>>
    \o (IF TruthyObj(subscriber.expiryDate)
        THEN <<StCreate("radcheck",
                 CheckRow(u, "Expiration", formatRadiusExpiration(subscriber.expiryDate[1])))>>
        ELSE <<>>)

\* Variant: the MAC address is written as given.
CallingStationStmtsAsGiven(u, subscriber) ==
    <<StDeleteMany("radcheck", [attribute |-> "Calling-Station-Id", username |-> u])>>
    \o (IF TruthyStr(subscriber.macAddress)
        THEN <<StCreate("radcheck",
                 CheckRow(u, "Calling-Station-Id", subscriber.macAddress[1]))>>
        ELSE <<>>)

\* The Calling-Station-Id (MAC binding) block of the same two handlers.
CallingStationStmts(u, subscriber) ==
    <<StDeleteMany("radcheck", [attribute |-> "Calling-Station-Id", username |-> u])>>
    \o (IF TruthyStr(subscriber.macAddress)
        THEN <<StCreate("radcheck",
                 CheckRow(u, "Calling-Station-Id", toUpperCase(subscriber.macAddress[1])))>>
        ELSE <<>>)

----------------------------------------------------------------------------
(* radius.service.ts: the statements each handler runs in its transaction *)

\* Variant: the new password row is inserted without deleting the old one.
SyncAuthAppendsPasswordProg(tenantSlug, subscriber, cleartextPassword) ==
    LET u == buildRadiusUsername(tenantSlug, subscriber.username)
    IN  (IF TruthyStr(cleartextPassword)
         THEN <<StCreate("radcheck", CheckRow(u, "Cleartext-Password", cleartextPassword[1]))>>
         ELSE <<>>)
        \o ExpirationStmts(u, subscriber)
        \o CallingStationStmts(u, subscriber)

SyncSubscriberAuthProg(tenantSlug, subscriber, cleartextPassword) ==
    LET u == buildRadiusUsername(tenantSlug, subscriber.username)
    IN  (IF TruthyStr(cleartextPassword)
         THEN <<StDeleteMany("radcheck", [attribute |-> "Cleartext-Password", username |-> u]),
                StCreate("radcheck", CheckRow(u, "Cleartext-Password", cleartextPassword[1]))>>
         ELSE <<>>)
        \o ExpirationStmts(u, subscriber)
        \o CallingStationStmts(u, subscriber)


\* Variant: enable leaves the Auth-Type row in place.
EnableKeepsRejectProg(tenantSlug, subscriber) ==
    LET u == buildRadiusUsername(tenantSlug, subscriber.username)
    IN  ExpirationStmts(u, subscriber)
        \o CallingStationStmts(u, subscriber)
        \o (IF TruthyStr(subscriber.planId)
            THEN <<StFindFirst("radusergroup", [username |-> u]),
                   StCreateIfNone("radusergroup",
                       UserGroupRow(u, buildRadiusGroupname(tenantSlug, subscriber.planId[1])))>>
            ELSE <<>>)

\* Variant: enable inserts the membership row without looking for one.
EnableAlwaysMapsProg(tenantSlug, subscriber) ==
    LET u == buildRadiusUsername(tenantSlug, subscriber.username)
    IN  <<StDeleteMany("radcheck", [attribute |-> "Auth-Type", username |-> u])>>
        \o ExpirationStmts(u, subscriber)
        \o CallingStationStmts(u, subscriber)
        \o (IF TruthyStr(subscriber.planId)
            THEN <<StCreate("radusergroup",
                       UserGroupRow(u, buildRadiusGroupname(tenantSlug, subscriber.planId[1])))>>
            ELSE <<>>)

\* Variant: enable replaces the membership rows by the row of the
\* subscriber's plan.
EnableRepointsProg(tenantSlug, subscriber) ==
    LET u == buildRadiusUsername(tenantSlug, subscriber.username)
    IN  <<StDeleteMany("radcheck", [attribute |-> "Auth-Type", username |-> u])>>
        \o ExpirationStmts(u, subscriber)
        \o CallingStationStmts(u, subscriber)
        \o (IF TruthyStr(subscriber.planId)
            THEN <<StDeleteMany("radusergroup", [username |-> u]),
                   StCreate("radusergroup",
                       UserGroupRow(u, buildRadiusGroupname(tenantSlug, subscriber.planId[1])))>>
            ELSE <<>>)

EnableSubscriberProg(tenantSlug, subscriber) ==
    LET u == buildRadiusUsername(tenantSlug, subscriber.username)
    IN  <<StDeleteMany("radcheck", [attribute |-> "Auth-Type", username |-> u])>>
        \o ExpirationStmts(u, subscriber)
        \o CallingStationStmts(u, subscriber)
        \o (IF TruthyStr(subscriber.planId)
            THEN <<StFindFirst("radusergroup", [username |-> u]),
                   StCreateIfNone("radusergroup",
                       UserGroupRow(u, buildRadiusGroupname(tenantSlug, subscriber.planId[1])))>>
            ELSE <<>>)


\* Variant: disable writes the Reject row and keeps the membership rows.
DisableKeepsGroupProg(tenantSlug, username) ==
    LET u == buildRadiusUsername(tenantSlug, username)
    IN  <<StDeleteMany("radcheck", [attribute |-> "Auth-Type", username |-> u]),
          StCreate("radcheck", CheckRow(u, "Auth-Type", Reject))>>

\* Variant: disable deletes every check row of the username before it
\* writes the Reject row.
DisableClearsCheckProg(tenantSlug, username) ==
    LET u == buildRadiusUsername(tenantSlug, username)
    IN  <<StDeleteMany("radcheck", [username |-> u]),
          StCreate("radcheck", CheckRow(u, "Auth-Type", Reject)),
          StDeleteMany("radusergroup", [username |-> u])>>

DisableSubscriberProg(tenantSlug, username) ==
    LET u == buildRadiusUsername(tenantSlug, username)
    IN  <<StDeleteMany("radcheck", [attribute |-> "Auth-Type", username |-> u]),
          StCreate("radcheck", CheckRow(u, "Auth-Type", Reject)),
          StDeleteMany("radusergroup", [username |-> u])>>


\* Variant: the new mapping is inserted only when a plan is given, and the
\* old mappings are deleted only then.
SyncPlanKeepsOnNullProg(tenantSlug, username, planId) ==
    LET u == buildRadiusUsername(tenantSlug, username)
    IN  IF TruthyStr(planId)
        THEN <<StDeleteMany("radusergroup", [username |-> u]),
               StCreate("radusergroup",
                   UserGroupRow(u, buildRadiusGroupname(tenantSlug, planId[1])))>>
        ELSE <<>>

\* Variant: the membership rows of every username are deleted.
SyncPlanClearsTableProg(tenantSlug, username, planId) ==
    LET u == buildRadiusUsername(tenantSlug, username)
    IN  <<StDeleteMany("radusergroup", <<>>)>>
        \o (IF TruthyStr(planId)
            THEN <<StCreate("radusergroup",
                       UserGroupRow(u, buildRadiusGroupname(tenantSlug, planId[1])))>>
            ELSE <<>>)

SyncSubscriberPlanProg(tenantSlug, username, planId) ==
    LET u == buildRadiusUsername(tenantSlug, username)
    IN  <<StDeleteMany("radusergroup", [username |-> u])>>
        \o (IF TruthyStr(planId)
            THEN <<StCreate("radusergroup",
                       UserGroupRow(u, buildRadiusGroupname(tenantSlug, planId[1])))>>
            ELSE <<>>)

\* Variant: the static-address row is inserted without deleting the old one.
SyncReplyAppendsProg(tenantSlug, subscriber) ==
    LET u == buildRadiusUsername(tenantSlug, subscriber.username)
    IN  IF TruthyStr(subscriber.staticIp)
        THEN <<StCreate("radreply", ReplyRow(u, "Framed-IP-Address", subscriber.staticIp[1]))>>
        ELSE <<>>

SyncSubscriberReplyProg(tenantSlug, subscriber) ==
    LET u == buildRadiusUsername(tenantSlug, subscriber.username)
    IN  <<StDeleteMany("radreply", [attribute |-> "Framed-IP-Address", username |-> u])>>
        \o (IF TruthyStr(subscriber.staticIp)
            THEN <<StCreate("radreply", ReplyRow(u, "Framed-IP-Address", subscriber.staticIp[1]))>>
            ELSE <<>>)

\* Variant: the reply rows are left in place.
RemoveAuthKeepsReplyProg(tenantSlug, username) ==
    LET u == buildRadiusUsername(tenantSlug, username)
    IN  <<StDeleteMany("radcheck", [username |-> u]),
          StDeleteMany("radusergroup", [username |-> u])>>

RemoveSubscriberAuthProg(tenantSlug, username) ==
    LET u == buildRadiusUsername(tenantSlug, username)
    IN  <<StDeleteMany("radcheck", [username |-> u]),
          StDeleteMany("radreply", [username |-> u]),
          StDeleteMany("radusergroup", [username |-> u])>>

GroupReplyRow(g, attr) ==
    [attribute |-> attr.attribute, groupname |-> g, op |-> ":=",
     priority |-> attr.priority, value |-> attr.value]

GroupCheckRow(g, attribute, value) ==
    [attribute |-> attribute, groupname |-> g, op |-> ":=", value |-> value]

\* plan.simultaneousDevices || 1
SimultaneousUse(plan) ==
    IF TruthyNum(plan.simultaneousDevices) THEN plan.simultaneousDevices[1] ELSE 1

\* Variant: the group-reply rows are inserted without deleting the old ones.
SyncPlanBandwidthAppendReplyProg(tenantSlug, plan) ==
    LET g == buildRadiusGroupname(tenantSlug, plan.id)
        attributes == planToRadiusAttributes(plan)
    IN  <<StDeleteMany("radgroupcheck", [groupname |-> g])>>
        \o [i \in 1..Len(attributes) |-> StCreate("radgroupreply", GroupReplyRow(g, attributes[i]))]
        \o <<StCreate("radgroupcheck",
                 GroupCheckRow(g, "Simultaneous-Use", NatToStr(SimultaneousUse(plan))))>>

\* Variant: the group-check rows are not deleted (as removePlanBandwidth
\* leaves them).
SyncPlanBandwidthKeepsCheckProg(tenantSlug, plan) ==
    LET g == buildRadiusGroupname(tenantSlug, plan.id)
        attributes == planToRadiusAttributes(plan)
    IN  <<StDeleteMany("radgroupreply", [groupname |-> g])>>
        \o [i \in 1..Len(attributes) |-> StCreate("radgroupreply", GroupReplyRow(g, attributes[i]))]
        \o <<StCreate("radgroupcheck",
                 GroupCheckRow(g, "Simultaneous-Use", NatToStr(SimultaneousUse(plan))))>>

SyncPlanBandwidthProg(tenantSlug, plan) ==
    LET g == buildRadiusGroupname(tenantSlug, plan.id)
        attributes == planToRadiusAttributes(plan)
    IN  <<StDeleteMany("radgroupreply", [groupname |-> g]),
          StDeleteMany("radgroupcheck", [groupname |-> g])>>
        \o [i \in 1..Len(attributes) |-> StCreate("radgroupreply", GroupReplyRow(g, attributes[i]))]
        \o <<StCreate("radgroupcheck",
                 GroupCheckRow(g, "Simultaneous-Use", NatToStr(SimultaneousUse(plan))))>>

\* Variant: the group-check rows of the group are deleted too.
RemovePlanBandwidthAndCheckProg(tenantSlug, planId) ==
    <<StDeleteMany("radgroupreply", [groupname |-> buildRadiusGroupname(tenantSlug, planId)]),
      StDeleteMany("radgroupcheck", [groupname |-> buildRadiusGroupname(tenantSlug, planId)])>>

\* removePlanBandwidth runs one statement outside any transaction.
RemovePlanBandwidthProg(tenantSlug, planId) ==
    <<StDeleteMany("radgroupreply", [groupname |-> buildRadiusGroupname(tenantSlug, planId)])>>

----------------------------------------------------------------------------
(* Inputs *)

Tenants == {<<"a">>}

UserX == <<"x">>
LocalNames == {UserX}

PlanP == <<"p">>
PlanQ == <<"q">>

Date1 == [day |-> 5, month |-> 0, year |-> 2025]
Date2 == [day |-> 31, month |-> 11, year |-> 2026]

Mac1 == <<"a","a",":","0","1",":","b","c">>
Ip1  == <<"1","0",".","0",".","0",".","7">>
Pw1  == <<"s","3","c">>
Pw2  == <<"t","0","p">>

Subscriber(username, expiryDate, macAddress, planId, staticIp) ==
    [expiryDate |-> expiryDate, macAddress |-> macAddress, planId |-> planId,
     staticIp |-> staticIp, username |-> username]

ExpiryDates == {Null, Some(Date1), Some(Date2)}
MacAddresses == {Null, Some(Mac1)}
PlanIds == {Null, Some(PlanP), Some(PlanQ)}
StaticIps == {Null, Some(Ip1)}
Passwords == {Null, Some(<<>>), Some(Pw1), Some(Pw2)}

\* Subscriber records handed to syncSubscriberAuth (which reads the expiry
\* date and the MAC address).
AuthSubscribers ==
    {Subscriber(u, e, m, Null, Null) : u \in LocalNames, e \in ExpiryDates, m \in MacAddresses}

\* Subscriber records handed to enableSubscriberRadius (which reads the plan too).
EnableSubscribers ==
    {Subscriber(u, e, m, pl, Null) :
        u \in LocalNames, e \in ExpiryDates, m \in MacAddresses, pl \in PlanIds}

\* Subscriber records handed to syncSubscriberReplyAttributes (which reads
\* the static address).
ReplySubscribers ==
    {Subscriber(u, Null, Null, Null, ip) : u \in LocalNames, ip \in StaticIps}

Pool1 == <<"p","o","o","l","1">>

Plan(id, speedUnit, down, up, burst, poolName, validityUnit, validityDays, devices) ==
    [burstDownloadSpeed |-> burst[1], burstThreshold |-> burst[3], burstTime |-> burst[4],
     burstUploadSpeed |-> burst[2], downloadSpeed |-> down, id |-> id,
     poolName |-> poolName, priority |-> 8, simultaneousDevices |-> devices,
     speedUnit |-> speedUnit, uploadSpeed |-> up, validityDays |-> validityDays,
     validityUnit |-> validityUnit]

\* Burst settings <<download, upload, threshold, time>>: none, complete,
\* without a threshold, and with a burst time of zero.
NoBurst        == <<Null, Null, Null, Null>>
FullBurst      == <<Some(100), Some(50), Some(100), Some(10)>>
BurstNoThresh  == <<Some(100), Some(50), Null, Some(10)>>
BurstZeroTime  == <<Some(100), Some(50), Some(100), Some(0)>>

\* The versions of a plan handed to syncPlanBandwidth.
PlanVersions(id) ==
    {Plan(id, "MBPS", 50, 30, NoBurst, Null, "DAYS", 30, Null),
     Plan(id, "MBPS", 50, 30, FullBurst, Some(Pool1), "HOURS", 2, Some(3)),
     Plan(id, "KBPS", 512, 256, BurstNoThresh, Null, "HOURS", 2, Null),
     Plan(id, "MBPS", 50, 30, BurstZeroTime, Some(Pool1), "MONTHS", 1, Some(3))}

Plans == PlanVersions(PlanP)
         \cup {pl \in PlanVersions(PlanQ) : pl.validityUnit # "HOURS"}

----------------------------------------------------------------------------
(* Connections and history *)

Conns == {"c1", "c2"}

NoCall == [op |-> "none"]
NoOutcome == [at |-> 0, result |-> "none"]
NoTrack == [calls |-> <<>>, on |-> FALSE, start |-> EmptyDb]
NoReturn == [kind |-> "none", value |-> <<>>]
NoHist == [call |-> NoCall, ret |-> NoReturn]

\* How a call ends: it returns a value or throws an error.
Returns(v) == [kind |-> "returned", value |-> v]
Throws(e) == [kind |-> "threw", value |-> e]

Idle == \A k \in Conns : pc[k] = 0

\* The business tables, each a set of rows with a unique id.
EmptyBiz == [otp |-> {}, voucher |-> {}]

\* The callers that run a handler step by step, and a caller that runs none.
Callers == {"p1", "p2"}
NoTask == [at |-> "idle", done |-> <<>>, op |-> "none"]

Bounded(d) == \A t \in Tables : BagCardinality(d[t]) <= MaxRows

\* The runs of consecutive calls that are followed: enable, disable, enable
\* of one subscriber, and syncPlanBandwidth twice with one plan.
IsTracked(cs) ==
    \/ Len(cs) = 1 /\ cs[1].op \in {"enable", "syncPlanBandwidth"}
    \/ /\ Len(cs) \in {2, 3}
       /\ cs[1].op = "enable"
       /\ cs[2].op = "disable"
       /\ cs[2].tenant = cs[1].tenant
       /\ cs[2].username = cs[1].subscriber.username
       /\ Len(cs) = 3 => cs[3] = cs[1]
    \/ /\ Len(cs) = 2
       /\ cs[1].op = "syncPlanBandwidth"
       /\ cs[2] = cs[1]

\* The followed run after call c made on rows d.
Track(c, d) ==
    IF ~trk.on THEN trk
    ELSE IF trk.calls # <<>> /\ IsTracked(Append(trk.calls, c))
         THEN [trk EXCEPT !.calls = Append(trk.calls, c)]
         ELSE IF IsTracked(<<c>>)
              THEN [trk EXCEPT !.calls = <<c>>, !.start = d]
              ELSE [trk EXCEPT !.calls = <<>>, !.start = EmptyDb]

\* The handler returns to its caller: the call is recorded.
Returned(c) ==
    /\ Bounded(db')
    /\ last' = c
    /\ pre' = db
    /\ trk' = Track(c, db)
    /\ UNCHANGED <<pc, call, dels, ins, existing, outcome, biz, task>>
    /\ UNCHANGED <<clock, wire, ret, hist>>

----------------------------------------------------------------------------
(* radius.service.ts: the handlers, each called with no other connection   *)
(* active, so that its transaction runs to completion and commits          *)

syncSubscriberAuth(tenantSlug, subscriber, cleartextPassword) ==
    /\ Idle
    /\ db' = RunTx(SyncSubscriberAuthProg(tenantSlug, subscriber, cleartextPassword), db)
    /\ Returned([op |-> "syncAuth", password |-> cleartextPassword,
                 subscriber |-> subscriber, tenant |-> tenantSlug])

enableSubscriberRadius(tenantSlug, subscriber) ==
    /\ Idle
    /\ db' = RunTx(EnableSubscriberProg(tenantSlug, subscriber), db)
    /\ Returned([op |-> "enable", subscriber |-> subscriber, tenant |-> tenantSlug])

disableSubscriberRadius(tenantSlug, username) ==
    /\ Idle
    /\ db' = RunTx(DisableSubscriberProg(tenantSlug, username), db)
    /\ Returned([op |-> "disable", tenant |-> tenantSlug, username |-> username])

syncSubscriberPlan(tenantSlug, username, planId) ==
    /\ Idle
    /\ db' = RunTx(SyncSubscriberPlanProg(tenantSlug, username, planId), db)
    /\ Returned([op |-> "syncPlan", planId |-> planId, tenant |-> tenantSlug,
                 username |-> username])

syncSubscriberReplyAttributes(tenantSlug, subscriber) ==
    /\ Idle
    /\ db' = RunTx(SyncSubscriberReplyProg(tenantSlug, subscriber), db)
    /\ Returned([op |-> "syncReply", subscriber |-> subscriber, tenant |-> tenantSlug])

removeSubscriberAuth(tenantSlug, username) ==
    /\ Idle
    /\ db' = RunTx(RemoveSubscriberAuthProg(tenantSlug, username), db)
    /\ Returned([op |-> "removeAuth", tenant |-> tenantSlug, username |-> username])

----------------------------------------------------------------------------
(* Specification of the subscriber-level handlers, called one at a time *)

InitConns ==
    /\ pc = [c \in Conns |-> 0]
    /\ call = [c \in Conns |-> NoCall]
    /\ dels = [c \in Conns |-> EmptyDb]
    /\ ins = [c \in Conns |-> EmptyDb]
    /\ existing = [c \in Conns |-> FALSE]
    /\ outcome = [c \in Conns |-> NoOutcome]
    /\ clock = 0
    /\ wire = <<>>
    /\ ret = NoReturn
    /\ hist = NoHist
    /\ biz = EmptyBiz
    /\ task = [p \in Callers |-> NoTask]

Init ==
    /\ db = EmptyDb
    /\ last = NoCall
    /\ pre = EmptyDb
    /\ trk = NoTrack
    /\ InitConns

Next ==
    \/ \E t \in Tenants, s \in AuthSubscribers, pw \in Passwords :
         syncSubscriberAuth(t, s, pw)
    \/ \E t \in Tenants, s \in EnableSubscribers : enableSubscriberRadius(t, s)
    \/ \E t \in Tenants, u \in LocalNames : disableSubscriberRadius(t, u)
    \/ \E t \in Tenants, u \in LocalNames, pl \in PlanIds : syncSubscriberPlan(t, u, pl)
    \/ \E t \in Tenants, s \in ReplySubscribers : syncSubscriberReplyAttributes(t, s)
    \/ \E t \in Tenants, u \in LocalNames : removeSubscriberAuth(t, u)

Spec == Init /\ [][Next]_vars

\* The same handlers, with runs of consecutive calls followed.
InitFollow ==
    /\ db = EmptyDb
    /\ last = NoCall
    /\ pre = EmptyDb
    /\ trk = [NoTrack EXCEPT !.on = TRUE]
    /\ InitConns

SpecFollow == InitFollow /\ [][Next]_vars

----------------------------------------------------------------------------
(* Specification of the plan-level handlers, called one at a time *)

syncPlanBandwidth(tenantSlug, plan) ==
    /\ Idle
    /\ db' = RunTx(SyncPlanBandwidthProg(tenantSlug, plan), db)
    /\ Returned([op |-> "syncPlanBandwidth", plan |-> plan, tenant |-> tenantSlug])

removePlanBandwidth(tenantSlug, planId) ==
    /\ Idle
    /\ db' = RunTx(RemovePlanBandwidthProg(tenantSlug, planId), db)
    /\ Returned([op |-> "removePlanBandwidth", planId |-> planId, tenant |-> tenantSlug])

NextPlan ==
    \/ \E t \in Tenants, pl \in Plans : syncPlanBandwidth(t, pl)
    \/ \E t \in Tenants, id \in {PlanP, PlanQ} : removePlanBandwidth(t, id)
    \/ \E t \in Tenants, u \in LocalNames, pl \in PlanIds : syncSubscriberPlan(t, u, pl)

SpecPlan == InitFollow /\ [][NextPlan]_vars

----------------------------------------------------------------------------
(* Specification of the handlers called for two usernames and two plans *)

\* A second local username, which begins with the first.
UserXY == <<"x","y">>
FrameNames == {UserX, UserXY}

\* One plan of each of two ids.
FramePlans ==
    {pl \in Plans : pl.speedUnit = "MBPS" /\ pl.validityUnit = "DAYS"
                     /\ pl.poolName = Null /\ pl.burstDownloadSpeed = Null}

\* The subscriber records of the two usernames: with an expiry date and a
\* MAC address for syncSubscriberAuth, with a plan for enableSubscriberRadius,
\* with a static address for syncSubscriberReplyAttributes.
FrameAuthSubscribers ==
    {Subscriber(u, Some(Date1), Some(Mac1), Null, Null) : u \in FrameNames}
FrameEnableSubscribers ==
    {Subscriber(u, Null, Null, Some(PlanP), Null) : u \in FrameNames}
FrameReplySubscribers ==
    {Subscriber(u, Null, Null, Null, Some(Ip1)) : u \in FrameNames}

NextFrame ==
    \/ \E t \in Tenants, s \in FrameAuthSubscribers : syncSubscriberAuth(t, s, Some(Pw1))
    \/ \E t \in Tenants, s \in FrameEnableSubscribers : enableSubscriberRadius(t, s)
    \/ \E t \in Tenants, u \in FrameNames : disableSubscriberRadius(t, u)
    \/ \E t \in Tenants, u \in FrameNames : syncSubscriberPlan(t, u, Some(PlanQ))
    \/ \E t \in Tenants, s \in FrameReplySubscribers : syncSubscriberReplyAttributes(t, s)
    \/ \E t \in Tenants, u \in FrameNames : removeSubscriberAuth(t, u)
    \/ \E t \in Tenants, pl \in FramePlans : syncPlanBandwidth(t, pl)

SpecFrame == Init /\ [][NextFrame]_vars

----------------------------------------------------------------------------
(* The handlers statement by statement: prisma.$transaction on one         *)
(* connection, any statement of which may raise an error                   *)

\* The statements a call runs in its transaction.
ProgOf(c) ==
    CASE c.op = "syncAuth"   -> SyncSubscriberAuthProg(c.tenant, c.subscriber, c.password)
      [] c.op = "enable"     -> EnableSubscriberProg(c.tenant, c.subscriber)
      [] c.op = "disable"    -> DisableSubscriberProg(c.tenant, c.username)
      [] c.op = "syncPlan"   -> SyncSubscriberPlanProg(c.tenant, c.username, c.planId)
      [] c.op = "syncReply"  -> SyncSubscriberReplyProg(c.tenant, c.subscriber)
      [] c.op = "removeAuth" -> RemoveSubscriberAuthProg(c.tenant, c.username)
      [] c.op = "syncPlanBandwidth" -> SyncPlanBandwidthProg(c.tenant, c.plan)

TxOf(k) == [dels |-> dels[k], existing |-> existing[k], ins |-> ins[k]]

\* Variant: a statement of the transaction is written through to the
\* committed rows at once (the statement issued on prisma instead of tx).
CommittedAfterStmtWriteThrough(st, d, x) == Commit(d, ExecStmt(st, d, NoWrites))

\* The committed rows after a statement of an open transaction: unchanged,
\* the statement's writes stay with the transaction.
CommittedAfterStmt(st, d, x) == d

\* Variant: the writes made before the failing statement are kept.
CommittedAfterErrorKeepsWrites(d, x) == Commit(d, x)

\* The committed rows after a statement of the transaction has raised an
\* error: the transaction is rolled back.
CommittedAfterError(d, x) == d

\* deleteMany waits while another open transaction has deleted a row it matches.
Blocked(k, st) ==
    /\ st.k = "deleteMany"
    /\ \E o \in Conns \ {k} :
          pc[o] # 0 /\ MatchingRows(dels[o][st.t], st.w) # EmptyBag

\* The handler is called: its transaction begins.
Begin(k, c) ==
    /\ pc[k] = 0
    /\ pc' = [pc EXCEPT ![k] = 1]
    /\ call' = [call EXCEPT ![k] = c]
    /\ dels' = [dels EXCEPT ![k] = EmptyDb]
    /\ ins' = [ins EXCEPT ![k] = EmptyDb]
    /\ existing' = [existing EXCEPT ![k] = FALSE]
    /\ outcome' = [outcome EXCEPT ![k] = NoOutcome]
    /\ last' = c
    /\ pre' = db
    /\ UNCHANGED <<db, trk, biz, task>>
    /\ UNCHANGED <<clock, wire, ret, hist>>

\* The next statement of the transaction runs.
Step(k) ==
    /\ pc[k] >= 1
    /\ pc[k] <= Len(ProgOf(call[k]))
    /\ LET st == ProgOf(call[k])[pc[k]]
           x  == ExecStmt(st, db, TxOf(k))
       IN  /\ ~Blocked(k, st)
           /\ dels' = [dels EXCEPT ![k] = x.dels]
           /\ ins' = [ins EXCEPT ![k] = x.ins]
           /\ existing' = [existing EXCEPT ![k] = x.existing]
           /\ db' = CommittedAfterStmt(st, db, TxOf(k))
    /\ pc' = [pc EXCEPT ![k] = @ + 1]
    /\ UNCHANGED <<call, outcome, last, pre, trk, biz, task>>
    /\ UNCHANGED <<clock, wire, ret, hist>>

\* The next statement (or the commit) raises an error: the transaction is
\* rolled back and the handler's catch block rethrows.
Throw(k) ==
    /\ pc[k] >= 1
    /\ pc[k] <= Len(ProgOf(call[k])) + 1
    /\ db' = CommittedAfterError(db, TxOf(k))
    /\ dels' = [dels EXCEPT ![k] = EmptyDb]
    /\ ins' = [ins EXCEPT ![k] = EmptyDb]
    /\ existing' = [existing EXCEPT ![k] = FALSE]
    /\ outcome' = [outcome EXCEPT ![k] = [at |-> pc[k], result |-> "threw"]]
    /\ pc' = [pc EXCEPT ![k] = 0]
    /\ UNCHANGED <<call, last, pre, trk, biz, task>>
    /\ UNCHANGED <<clock, wire, ret, hist>>

\* Every statement has run: the transaction commits and the handler returns.
CommitTx(k) ==
    /\ pc[k] >= 1
    /\ pc[k] = Len(ProgOf(call[k])) + 1
    /\ db' = Commit(db, TxOf(k))
    /\ Bounded(db')
    /\ dels' = [dels EXCEPT ![k] = EmptyDb]
    /\ ins' = [ins EXCEPT ![k] = EmptyDb]
    /\ existing' = [existing EXCEPT ![k] = FALSE]
    /\ outcome' = [outcome EXCEPT ![k] = [at |-> pc[k], result |-> "returned"]]
    /\ pc' = [pc EXCEPT ![k] = 0]
    /\ UNCHANGED <<call, last, pre, trk, biz, task>>
    /\ UNCHANGED <<clock, wire, ret, hist>>

\* The calls made in the statement-level specification.
TxSubscribers ==
    {s \in EnableSubscribers : s.expiryDate # Some(Date2) /\ s.planId # Some(PlanQ)}

TxCalls(op) ==
    CASE op = "syncAuth" ->
           {[op |-> "syncAuth", password |-> pw, subscriber |-> s, tenant |-> t] :
               pw \in {Null, Some(Pw1)}, s \in {q \in TxSubscribers : q.planId = Null},
               t \in Tenants}
      [] op = "enable" ->
           {[op |-> "enable", subscriber |-> s, tenant |-> t] :
               s \in TxSubscribers, t \in Tenants}
      [] op = "disable" ->
           {[op |-> "disable", tenant |-> t, username |-> u] :
               t \in Tenants, u \in LocalNames}
      [] op = "syncPlan" ->
           {[op |-> "syncPlan", planId |-> pl, tenant |-> t, username |-> u] :
               pl \in {Null, Some(PlanP)}, t \in Tenants, u \in LocalNames}
      [] op = "syncReply" ->
           {[op |-> "syncReply", subscriber |-> s, tenant |-> t] :
               s \in ReplySubscribers, t \in Tenants}
      [] op = "removeAuth" ->
           {[op |-> "removeAuth", tenant |-> t, username |-> u] :
               t \in Tenants, u \in LocalNames}
      [] op = "syncPlanBandwidth" ->
           {[op |-> "syncPlanBandwidth", plan |-> pl, tenant |-> t] :
               pl \in {q \in PlanVersions(PlanP) : q.speedUnit = "MBPS" /\ q.validityUnit # "MONTHS"},
               t \in Tenants}

TxOps == {"syncAuth", "enable", "disable", "syncPlan", "syncReply", "removeAuth",
          "syncPlanBandwidth"}

NextTx ==
    \/ \E op \in TxOps : \E c \in TxCalls(op) : Begin("c1", c)
    \/ Step("c1")
    \/ Throw("c1")
    \/ CommitTx("c1")

SpecTx == Init /\ [][NextTx]_vars

----------------------------------------------------------------------------
(* Two handlers called at the same time, each in its own transaction on its *)
(* own connection, their statements interleaved in any order                *)

\* Both handlers are called before either runs its first statement.
BeginBoth(c, d) ==
    /\ Idle
    /\ pc' = [k \in Conns |-> 1]
    /\ call' = [k \in Conns |-> IF k = "c1" THEN c ELSE d]
    /\ dels' = [k \in Conns |-> EmptyDb]
    /\ ins' = [k \in Conns |-> EmptyDb]
    /\ existing' = [k \in Conns |-> FALSE]
    /\ outcome' = [k \in Conns |-> NoOutcome]
    /\ last' = [at |-> clock, first |-> c, op |-> "concurrent", second |-> d]
    /\ pre' = db
    /\ UNCHANGED <<db, trk, biz, task>>
    /\ UNCHANGED <<clock, wire, ret, hist>>

\* The subscriber records of the concurrent enable calls: one username, with
\* a plan, with and without an expiry date.
RaceSubscribers ==
    {Subscriber(UserX, e, Null, pl, Null) :
        e \in {Null, Some(Date1)}, pl \in {Some(PlanP), Some(PlanQ)}}

\* The pairs of concurrent calls on one username: two syncSubscriberPlan
\* calls, two enable calls, and an enable with a disable.
RacePairs ==
    {<<c, d>> : c, d \in {[op |-> "syncPlan", planId |-> pl, tenant |-> t, username |-> UserX] :
                             pl \in {Some(PlanP), Some(PlanQ)}, t \in Tenants}}
    \cup
    {<<c, d>> : c, d \in {[op |-> "enable", subscriber |-> s, tenant |-> t] :
                             s \in RaceSubscribers, t \in Tenants}}
    \cup
    {<<c, d>> : c \in {[op |-> "enable", subscriber |-> s, tenant |-> t] :
                          s \in RaceSubscribers, t \in Tenants},
                d \in {[op |-> "disable", tenant |-> t, username |-> UserX] : t \in Tenants}}

NextRace ==
    \/ \E p \in RacePairs : BeginBoth(p[1], p[2])
    \/ \E k \in Conns : Step(k)
    \/ \E k \in Conns : CommitTx(k)

SpecRace == Init /\ [][NextRace]_vars

----------------------------------------------------------------------------
(* Accounting records (radacct): written by the authentication daemon, read  *)
(* and closed here                                                           *)

OtherTenant == <<"b">>
\* A tenant whose slug begins with the slug of tenant "a".
LongTenant == <<"a","b">>

Nas1 == <<"1","0",".","0",".","0",".","1">>
Nas2 == <<"1","0",".","0",".","0",".","2">>
NasIps == {Nas1, Nas2}

\* The sessions the daemon may record: id -> (username, NAS address).  One
\* username holds sessions on two NAS devices; two belong to other tenants.
SessionSlots ==
    <<[nasipaddress |-> Nas1, username |-> buildRadiusUsername(<<"a">>, UserX)],
      [nasipaddress |-> Nas2, username |-> buildRadiusUsername(<<"a">>, UserX)],
      [nasipaddress |-> Nas1, username |-> buildRadiusUsername(OtherTenant, UserX)],
      [nasipaddress |-> Nas2, username |-> buildRadiusUsername(LongTenant, UserX)]>>

AcctRow(id, start) ==
    [acctstarttime |-> start, acctstoptime |-> Null, acctterminatecause |-> <<>>,
     acctupdatetime |-> Null, nasipaddress |-> SessionSlots[id].nasipaddress,
     radacctid |-> id, username |-> SessionSlots[id].username]

AcctRows(d) == BagToSet(d["radacct"])

\* The handlers below leave the transaction state and the followed run alone.
CallDone(c) ==
    /\ Idle
    /\ Bounded(db')
    /\ last' = c
    /\ pre' = db
    /\ UNCHANGED <<trk, pc, call, dels, ins, existing, outcome, biz, task>>

\* A write of the daemon is not a call of this service: what is remembered
\* of the last call (its rows before, its return, its requests) is dropped.
DaemonWrote ==
    /\ last' = NoCall
    /\ pre' = EmptyDb
    /\ wire' = <<>>
    /\ ret' = NoReturn
    /\ UNCHANGED <<trk, pc, call, dels, ins, existing, outcome, clock, hist, biz, task>>

\* The daemon records the start of a session (Accounting-Request Start).
AcctStart(id) ==
    /\ \A r \in AcctRows(db) : r.radacctid # id
    /\ db' = [db EXCEPT !["radacct"] = InsertRow(@, AcctRow(id, clock))]
    /\ Bounded(db')
    /\ DaemonWrote

\* The daemon records an interim update of an open session.
AcctInterim(id) ==
    /\ \E r \in AcctRows(db) :
          /\ r.radacctid = id
          /\ r.acctstoptime = Null
          /\ r.acctupdatetime # Some(clock)
          /\ db' = [db EXCEPT !["radacct"] =
                       InsertRow(DeleteRows(@, [radacctid |-> id]),
                                 [r EXCEPT !.acctupdatetime = Some(clock)])]
    /\ DaemonWrote

\* The daemon records the end of a session (Accounting-Request Stop).
AcctStop(id) ==
    /\ \E r \in AcctRows(db) :
          /\ r.radacctid = id
          /\ r.acctstoptime = Null
          /\ db' = [db EXCEPT !["radacct"] =
                       InsertRow(DeleteRows(@, [radacctid |-> id]),
                                 [r EXCEPT !.acctstoptime = Some(clock),
                                           !.acctterminatecause = <<"User-Request">>])]
    /\ DaemonWrote

\* Sequences listing each row of a set once, most recent start first; rows
\* with equal start times come in any order (orderBy: { acctstarttime: "desc" }).
StartDescOrders(rows) ==
    {q \in [1..Cardinality(rows) -> rows] :
        /\ \A i, j \in 1..Cardinality(rows) : i # j => q[i] # q[j]
        /\ \A i, j \in 1..Cardinality(rows) :
              i < j => q[i].acctstarttime >= q[j].acctstarttime}

\* The rows getUserActiveSessions selects.
\* Variant: the stop-time is not part of the filter.
UserSessionsOpenOrClosed(d, tenantSlug, username) ==
    {r \in AcctRows(d) : r.username = buildRadiusUsername(tenantSlug, username)}

UserActiveSessions(d, tenantSlug, username) ==
    {r \in AcctRows(d) :
        /\ r.username = buildRadiusUsername(tenantSlug, username)
        /\ r.acctstoptime = Null}

----------------------------------------------------------------------------
(* The stale-session sweep *)

\* Ten minutes pass.
Tick ==
    /\ clock + 10 * 60 * 1000 <= MaxClock
    /\ clock' = clock + 10 * 60 * 1000
    /\ UNCHANGED <<db, last, pre, trk, pc, call, dels, ins, existing, outcome,
                   wire, ret, hist, biz, task>>

\* String.prototype.startsWith, as the store's prefix filter applies it.
StartsWith(str, prefix) ==
    Len(str) >= Len(prefix) /\ SubSeq(str, 1, Len(prefix)) = prefix

DefaultStaleMinutes == 15

\* staleThresholdMinutes = 15 when the argument is left out
StaleMinutes(staleThresholdMinutes) ==
    IF staleThresholdMinutes = Null THEN DefaultStaleMinutes ELSE staleThresholdMinutes[1]

\* new Date(Date.now() - staleThresholdMinutes * 60 * 1000)
StaleThreshold(nowMs, staleThresholdMinutes) ==
    nowMs - StaleMinutes(staleThresholdMinutes) * 60 * 1000

\* Variant: the clause on the stop time is missing.
StaleWhereAnyStopTime(r, tenantSlug, threshold) ==
    /\ \/ r.acctupdatetime # Null /\ r.acctupdatetime[1] < threshold
       \/ r.acctupdatetime = Null /\ r.acctstarttime < threshold
    /\ TruthyStr(tenantSlug) => StartsWith(r.username, tenantSlug[1] \o <<"_">>)

\* Variant: the second alternative does not ask for the last update to be absent.
StaleWhereStartOnly(r, tenantSlug, threshold) ==
    /\ r.acctstoptime = Null
    /\ \/ r.acctupdatetime # Null /\ r.acctupdatetime[1] < threshold
       \/ r.acctstarttime < threshold
    /\ TruthyStr(tenantSlug) => StartsWith(r.username, tenantSlug[1] \o <<"_">>)

\* The where clause of the sweep, applied to one row.  A comparison with an
\* absent (NULL) last-update time selects nothing.
StaleWhere(r, tenantSlug, threshold) ==
    /\ r.acctstoptime = Null
    /\ \/ r.acctupdatetime # Null /\ r.acctupdatetime[1] < threshold
       \/ r.acctupdatetime = Null /\ r.acctstarttime < threshold
    /\ TruthyStr(tenantSlug) => StartsWith(r.username, tenantSlug[1] \o <<"_">>)

StaleSession == <<"Stale-Session">>

\* The data of the sweep's updateMany, applied to one row.
CloseStale(r, nowMs) ==
    [r EXCEPT !.acctstoptime = Some(nowMs), !.acctterminatecause = StaleSession]

\* updateMany({ where, data }) on the accounting rows
UpdateStale(bag, tenantSlug, threshold, nowMs) ==
    LET hit  == {r \in BagToSet(bag) : StaleWhere(r, tenantSlug, threshold)}
        keep == BagToSet(bag) \ hit
    IN  [count |-> Cardinality(hit),
         rows  |-> [r \in keep |-> bag[r]] (+) SetToBag({CloseStale(r, nowMs) : r \in hit})]

\* cleanupStaleSessions: one bulk update outside any transaction, which may
\* run while a synchronization transaction is open; a failure of the
\* statement is logged and rethrown.
cleanupStaleSessions(tenantSlug, staleThresholdMinutes, fails) ==
    /\ IF fails
       THEN /\ db' = db
            /\ ret' = Throws(<<"P","1","0","0","1">>)
       ELSE LET done == UpdateStale(db["radacct"], tenantSlug,
                            StaleThreshold(clock, staleThresholdMinutes), clock)
            IN  /\ db' = [db EXCEPT !["radacct"] = done.rows]
                /\ ret' = Returns(done.count)
    /\ last' = [at |-> clock, fails |-> fails, minutes |-> staleThresholdMinutes,
                op |-> "cleanupStale", tenant |-> tenantSlug]
    /\ pre' = db
    /\ UNCHANGED <<trk, pc, call, dels, ins, existing, outcome, clock, wire, hist, biz, task>>

SweepTenants == {Null, Some(<<"a">>)}
SweepMinutes == {Null, Some(10)}

\* The synchronization calls that run, statement by statement, beside the sweep.
SweepCalls == TxCalls("disable")

\* The sessions recorded beside the sweep: one of each tenant.
SweepSlots == {1, 3}

NextSweep ==
    \/ \E id \in SweepSlots : AcctStart(id)
    \/ \E id \in SweepSlots : AcctInterim(id)
    \/ \E id \in SweepSlots : AcctStop(id)
    \/ Tick
    \/ \E t \in SweepTenants, m \in SweepMinutes, f \in BOOLEAN : cleanupStaleSessions(t, m, f)
    \/ \E c \in SweepCalls : Begin("c1", c)
    \/ Step("c1")
    \/ CommitTx("c1")

SpecSweep == Init /\ [][NextSweep]_vars

----------------------------------------------------------------------------
(* Control requests to NAS devices (disconnect, rate change)                 *)

\* What becomes of a control request on the network.
NasOutcomes == {"ack", "nak", "timeout", "error"}

Resolved(v) == [kind |-> "resolved", value |-> v]
Rejected == [kind |-> "rejected", value |-> FALSE]

\* sendCoaDisconnect / sendCoaChangeRate: how the promise settles for each
\* outcome.  It resolves to true on an acknowledgment only; a timeout or a
\* transport error either resolves to false or rejects.
SendCoaSettles(o) ==
    CASE o = "ack"     -> {Resolved(TRUE)}
      [] o = "nak"     -> {Resolved(FALSE)}
      [] o = "timeout" -> {Resolved(FALSE), Rejected}
      [] o = "error"   -> {Resolved(FALSE), Rejected}

Replies == {[outcome |-> o, settled |-> st] : o \in NasOutcomes, st \in {Resolved(TRUE), Resolved(FALSE), Rejected}}

PossibleReplies == {r \in Replies : r.settled \in SendCoaSettles(r.outcome)}

\* Variant: the catch block rethrows instead of returning false.
DisconnectUserRethrows(settled) ==
    IF settled.kind = "resolved" THEN Returns(settled.value) ELSE Throws(<<"E">>)

\* disconnectUser: try { return await sendCoaDisconnect(...) } catch { return false }
DisconnectUserReturn(settled) ==
    IF settled.kind = "resolved" THEN Returns(settled.value) ELSE Returns(FALSE)

\* changeUserBandwidth: the same shape around sendCoaChangeRate.
ChangeUserBandwidthReturn(settled) ==
    IF settled.kind = "resolved" THEN Returns(settled.value) ELSE Returns(FALSE)

CoaRequest(kind, nasIp, username, secret, rateLimit, reply) ==
    [kind |-> kind, nasIp |-> nasIp, outcome |-> reply.outcome, rateLimit |-> rateLimit,
     secret |-> secret, settled |-> reply.settled, username |-> username]

RECURSIVE DisconnectAllCountsAttemptsFrom(_, _, _, _, _, _, _)
RECURSIVE DisconnectAllStopsAtFailureFrom(_, _, _, _, _, _, _)
RECURSIVE DisconnectAllFrom(_, _, _, _, _, _, _)

\* Variant: every attempted request is counted, acknowledged or not.
DisconnectAllCountsAttemptsFrom(activeSessions, radiusUsername, nasSecret, replies, i, disconnected, sent) ==
    IF i > Len(activeSessions) THEN [ret |-> Returns(disconnected), wire |-> sent]
    ELSE LET req == CoaRequest("disconnect", activeSessions[i].nasipaddress,
                               radiusUsername, nasSecret, Null, replies[i])
             success == DisconnectUserReturn(replies[i].settled)
         IN  IF success.kind = "threw"
             THEN [ret |-> success, wire |-> Append(sent, req)]
             ELSE DisconnectAllCountsAttemptsFrom(activeSessions, radiusUsername, nasSecret,
                      replies, i + 1, disconnected + 1, Append(sent, req))

\* Variant: the loop ends at the first request that did not succeed.
DisconnectAllStopsAtFailureFrom(activeSessions, radiusUsername, nasSecret, replies, i, disconnected, sent) ==
    IF i > Len(activeSessions) THEN [ret |-> Returns(disconnected), wire |-> sent]
    ELSE LET req == CoaRequest("disconnect", activeSessions[i].nasipaddress,
                               radiusUsername, nasSecret, Null, replies[i])
             success == DisconnectUserReturn(replies[i].settled)
         IN  IF success.kind = "threw" \/ ~success.value
             THEN [ret |-> Returns(disconnected), wire |-> Append(sent, req)]
             ELSE DisconnectAllStopsAtFailureFrom(activeSessions, radiusUsername,
                      nasSecret, replies, i + 1, disconnected + 1, Append(sent, req))

\* The loop of disconnectAllUserSessions from its i-th session on: one
\* disconnectUser per session, counting those that returned true.  An error
\* thrown by disconnectUser would leave the loop and the handler.
DisconnectAllFrom(activeSessions, radiusUsername, nasSecret, replies, i, disconnected, sent) ==
    IF i > Len(activeSessions) THEN [ret |-> Returns(disconnected), wire |-> sent]
    ELSE LET req == CoaRequest("disconnect", activeSessions[i].nasipaddress,
                               radiusUsername, nasSecret, Null, replies[i])
             success == DisconnectUserReturn(replies[i].settled)
         IN  IF success.kind = "threw"
             THEN [ret |-> success, wire |-> Append(sent, req)]
             ELSE DisconnectAllFrom(activeSessions, radiusUsername, nasSecret,
                      replies, i + 1,
                      IF success.value THEN disconnected + 1 ELSE disconnected,
                      Append(sent, req))

Secret1 == <<"k","e","y">>
RadiusUsers == {buildRadiusUsername(t, u) : t \in Tenants, u \in LocalNames}
RateLimits == {buildMikroTikRateLimit(pl) : pl \in PlanVersions(PlanP)}

disconnectUser(nasIp, username, secret) ==
    /\ db' = db
    /\ \E reply \in PossibleReplies :
          /\ wire' = <<CoaRequest("disconnect", nasIp, username, secret, Null, reply)>>
          /\ ret' = DisconnectUserReturn(reply.settled)
    /\ CallDone([at |-> clock, nasIp |-> nasIp, op |-> "disconnectUser",
                 secret |-> secret, username |-> username])
    /\ UNCHANGED <<clock, hist>>

changeUserBandwidth(nasIp, username, secret, rateLimit) ==
    /\ db' = db
    /\ \E reply \in PossibleReplies :
          /\ wire' = <<CoaRequest("coa", nasIp, username, secret, Some(rateLimit), reply)>>
          /\ ret' = ChangeUserBandwidthReturn(reply.settled)
    /\ CallDone([at |-> clock, nasIp |-> nasIp, op |-> "changeUserBandwidth",
                 rateLimit |-> rateLimit, secret |-> secret, username |-> username])
    /\ UNCHANGED <<clock, hist>>

\* disconnectAllUserSessions: the lookup of the active sessions (which may
\* fail, and then the handler throws before any request), then the loop.
disconnectAllUserSessions(tenantSlug, username, nasSecret) ==
    /\ db' = db
    /\ \/ /\ wire' = <<>>
          /\ ret' = Throws(<<"P","1","0","0","1">>)
          /\ CallDone([at |-> clock, lookup |-> "error", op |-> "disconnectAll",
                       secret |-> nasSecret, tenant |-> tenantSlug,
                       username |-> username])
       \/ \E activeSessions \in StartDescOrders(UserActiveSessions(db, tenantSlug, username)) :
          \E replies \in [1..Len(activeSessions) -> PossibleReplies] :
             LET done == DisconnectAllFrom(activeSessions,
                             buildRadiusUsername(tenantSlug, username), nasSecret,
                             replies, 1, 0, <<>>)
             IN  /\ wire' = done.wire
                 /\ ret' = done.ret
                 /\ CallDone([at |-> clock, lookup |-> "ok", op |-> "disconnectAll",
                              secret |-> nasSecret, tenant |-> tenantSlug,
                              username |-> username])
    /\ UNCHANGED <<clock, hist>>

NextCoa ==
    \/ \E id \in 1..Len(SessionSlots) : AcctStart(id)
    \/ \E id \in 1..Len(SessionSlots) : AcctStop(id)
    \/ \E ip \in NasIps, u \in RadiusUsers : disconnectUser(ip, u, Secret1)
    \/ \E ip \in NasIps, u \in RadiusUsers, rl \in RateLimits :
         changeUserBandwidth(ip, u, Secret1, rl)
    \/ \E t \in Tenants, u \in LocalNames : disconnectAllUserSessions(t, u, Secret1)

SpecCoa == Init /\ [][NextCoa]_vars

----------------------------------------------------------------------------
(* Queries on the accounting records: getOnlineUsers, getUserActiveSessions, *)
(* getSessionHistory                                                         *)

\* Variant: the prefix filter is the slug without the separator.
OnlineUsersSlugPrefix(d, tenantSlug) ==
    {r \in AcctRows(d) : StartsWith(r.username, tenantSlug) /\ r.acctstoptime = Null}

\* The rows getOnlineUsers selects.
OnlineUsers(d, tenantSlug) ==
    {r \in AcctRows(d) :
        StartsWith(r.username, tenantSlug \o <<"_">>) /\ r.acctstoptime = Null}

\* A destructuring default: the value given, or the default when left out.
OrDefault(o, v) == IF o = Null THEN v ELSE o[1]

DefaultPage == 1
DefaultPageSize == 50

SessionHistoryParams(tenantSlug, subscriberUsername, nasIp, dates, onlyActive, paging) ==
    [endDate |-> dates[2], nasIp |-> nasIp, onlyActive |-> onlyActive,
     page |-> paging[1], pageSize |-> paging[2], startDate |-> dates[1],
     subscriberUsername |-> subscriberUsername, tenantSlug |-> tenantSlug]

\* The where clause getSessionHistory builds, applied to one row.
HistoryWhere(r, params) ==
    /\ IF TruthyStr(params.subscriberUsername)
       THEN r.username = buildRadiusUsername(params.tenantSlug, params.subscriberUsername[1])
       ELSE StartsWith(r.username, params.tenantSlug \o <<"_">>)
    /\ TruthyStr(params.nasIp) => r.nasipaddress = params.nasIp[1]
    /\ TruthyObj(params.startDate) => r.acctstarttime >= params.startDate[1]
    /\ TruthyObj(params.endDate) => r.acctstarttime <= params.endDate[1]
    /\ OrDefault(params.onlyActive, FALSE) => r.acctstoptime = Null

\* Math.ceil(a / b) for a >= 0 and b >= 1
Ceil(a, b) == CHOOSE n \in 0..a : n * b >= a /\ (n = 0 \/ (n - 1) * b < a)

\* Variant: skip is page * pageSize (the page counted from 0).
HistoryPageFromZero(ordered, page, pageSize) ==
    LET skip == page * pageSize
        rest == SubSeq(ordered, skip + 1, Len(ordered))
    IN  SubSeq(rest, 1, IF Len(rest) < pageSize THEN Len(rest) ELSE pageSize)

\* findMany({ skip: (page - 1) * pageSize, take: pageSize }) on the ordered rows
HistoryPage(ordered, page, pageSize) ==
    LET skip == (page - 1) * pageSize
        rest == SubSeq(ordered, skip + 1, Len(ordered))
    IN  SubSeq(rest, 1, IF Len(rest) < pageSize THEN Len(rest) ELSE pageSize)

StoreError == <<"P","1","0","0","1">>

\* getOnlineUsers: one findMany; an error of the store is logged and rethrown.
getOnlineUsers(tenantSlug, fails) ==
    /\ db' = db
    /\ wire' = <<>>
    /\ IF fails THEN ret' = Throws(StoreError)
       ELSE \E q \in StartDescOrders(OnlineUsers(db, tenantSlug)) : ret' = Returns(q)
    /\ CallDone([at |-> clock, fails |-> fails, op |-> "getOnlineUsers",
                 tenant |-> tenantSlug])
    /\ UNCHANGED <<clock, hist>>

getUserActiveSessions(tenantSlug, username, fails) ==
    /\ db' = db
    /\ wire' = <<>>
    /\ IF fails THEN ret' = Throws(StoreError)
       ELSE \E q \in StartDescOrders(UserActiveSessions(db, tenantSlug, username)) :
               ret' = Returns(q)
    /\ CallDone([at |-> clock, fails |-> fails, op |-> "getUserActiveSessions",
                 tenant |-> tenantSlug, username |-> username])
    /\ UNCHANGED <<clock, hist>>

\* getSessionHistory: findMany and count with the same where clause, both
\* answered from the same committed rows.
getSessionHistory(params, fails) ==
    /\ db' = db
    /\ wire' = <<>>
    /\ IF fails THEN ret' = Throws(StoreError)
       ELSE LET hit      == {r \in AcctRows(db) : HistoryWhere(r, params)}
                page     == OrDefault(params.page, DefaultPage)
                pageSize == OrDefault(params.pageSize, DefaultPageSize)
                total    == Cardinality(hit)
            IN  \E q \in StartDescOrders(hit) :
                   ret' = Returns([data |-> HistoryPage(q, page, pageSize),
                                   meta |-> [page |-> page, pageSize |-> pageSize,
                                             total |-> total,
                                             totalPages |-> Ceil(total, pageSize)]])
    /\ CallDone([at |-> clock, fails |-> fails, op |-> "getSessionHistory",
                 params |-> params])
    /\ UNCHANGED <<clock, hist>>

\* The tenants that query, one slug beginning with the other.
QueryTenants == {<<"a">>, LongTenant}

\* Every combination of filters with the default paging, and every paging
\* with the tenant and subscriber filters.
HistoryCalls ==
    {SessionHistoryParams(t, u, Null, <<Null, Null>>, Null, <<Some(p), Some(n)>>) :
        t \in QueryTenants, u \in {Null, Some(UserX)}, p \in {1, 2, 3}, n \in {1, 2}}
    \cup
    {SessionHistoryParams(t, u, ip, dates, active, <<Null, Null>>) :
        t \in QueryTenants, u \in {Null, Some(UserX)}, ip \in {Null, Some(Nas1)},
        dates \in {<<Null, Null>>, <<Some(600000), Null>>, <<Null, Some(0)>>},
        active \in {Null, Some(TRUE)}}

\* The calls of getSessionHistory that the store fails.
FailingHistoryCalls ==
    {SessionHistoryParams(t, Null, Null, <<Null, Null>>, Null, <<Null, Null>>) :
        t \in QueryTenants}

\* The sessions recorded beside the queries: two of one username of tenant
\* "a" and one of tenant "ab".
AcctSlots == {1, 2, 4}

NextAcct ==
    \/ \E id \in AcctSlots : AcctStart(id)
    \/ Tick
    \/ \E t \in QueryTenants : cleanupStaleSessions(Some(t), Null, FALSE)
    \/ \E t \in QueryTenants, f \in BOOLEAN : getOnlineUsers(t, f)
    \/ \E t \in QueryTenants, u \in LocalNames, f \in BOOLEAN : getUserActiveSessions(t, u, f)
    \/ \E params \in HistoryCalls : getSessionHistory(params, FALSE)
    \/ \E params \in FailingHistoryCalls : getSessionHistory(params, TRUE)

SpecAcct == Init /\ [][NextAcct]_vars

----------------------------------------------------------------------------
(* disconnectAllUserSessions step by step: each await is a step, and the   *)
(* daemon writes accounting records between the steps                      *)

\* A step of a handler followed here changes the caller's locals only.
OnlyTask ==
    UNCHANGED <<db, last, pre, trk, pc, call, dels, ins, existing, outcome,
                clock, wire, ret, hist, biz>>

\* A step of a handler followed here changes the business tables and the
\* caller's locals only.
OnlyBizAndTask ==
    UNCHANGED <<db, last, pre, trk, pc, call, dels, ins, existing, outcome,
                clock, wire, ret, hist>>

\* Variant: the active sessions are read again once the request is sent,
\* before its outcome is awaited.
AfterSendQueries(t) ==
    [t EXCEPT !.at = "waiting", !.log = @ \o <<"send", "lookup">>]

\* The caller's locals once disconnectUser has sent the request of session i
\* and awaits sendCoaDisconnect.
AfterSend(t) ==
    [t EXCEPT !.at = "waiting", !.log = Append(@, "send")]

\* The caller's locals once the request has settled: disconnectUser returns
\* success (false for a rejection), the count goes up on success, and the
\* loop moves to the next session.
AfterOutcome(t, reply) ==
    [t EXCEPT !.at = "loop",
              !.disconnected = IF DisconnectUserReturn(reply.settled).value THEN @ + 1 ELSE @,
              !.i = @ + 1,
              !.log = Append(@, "outcome"),
              !.sent = Append(@, CoaRequest("disconnect", t.activeSessions[t.i].nasipaddress,
                                            buildRadiusUsername(t.tenant, t.username),
                                            t.secret, Null, reply))]

\* disconnectAllUserSessions is called.
DisconnectAllCalled(p, tenantSlug, username, nasSecret) ==
    /\ task[p].at \in {"idle", "returned", "threw"}
    /\ task' = [task EXCEPT ![p] =
                   [activeSessions |-> <<>>, at |-> "lookup", disconnected |-> 0,
                    done |-> <<>>, i |-> 1, log |-> <<>>, op |-> "disconnectAll",
                    ret |-> NoReturn, secret |-> nasSecret, sent |-> <<>>,
                    tenant |-> tenantSlug, username |-> username]]
    /\ OnlyTask

\* await this.getUserActiveSessions(...): one findMany outside any
\* transaction; its error is rethrown and leaves the handler.
DisconnectAllLookup(p, fails) ==
    /\ task[p].op = "disconnectAll"
    /\ task[p].at = "lookup"
    /\ IF fails
       THEN task' = [task EXCEPT ![p].at = "threw", ![p].ret = Throws(StoreError),
                                 ![p].log = Append(@, "lookup")]
       ELSE \E q \in StartDescOrders(UserActiveSessions(db, task[p].tenant, task[p].username)) :
               task' = [task EXCEPT ![p].at = "loop", ![p].activeSessions = q,
                                    ![p].log = Append(@, "lookup")]
    /\ OnlyTask

\* The loop reaches a session: disconnectUser sends its request.
DisconnectAllSend(p) ==
    /\ task[p].op = "disconnectAll"
    /\ task[p].at = "loop"
    /\ task[p].i <= Len(task[p].activeSessions)
    /\ task' = [task EXCEPT ![p] = AfterSend(@)]
    /\ OnlyTask

\* The request settles.
DisconnectAllSettle(p) ==
    /\ task[p].op = "disconnectAll"
    /\ task[p].at = "waiting"
    /\ \E reply \in PossibleReplies : task' = [task EXCEPT ![p] = AfterOutcome(@, reply)]
    /\ OnlyTask

\* The loop is over: the handler returns the count.
DisconnectAllReturn(p) ==
    /\ task[p].op = "disconnectAll"
    /\ task[p].at = "loop"
    /\ task[p].i > Len(task[p].activeSessions)
    /\ task' = [task EXCEPT ![p].at = "returned", ![p].ret = Returns(task[p].disconnected)]
    /\ OnlyTask

\* The sessions recorded beside the handler: two of the username it
\* disconnects, on two NAS devices.
ClientSlots == {1, 2}

NextClient ==
    \/ \E id \in ClientSlots : AcctStart(id)
    \/ \E id \in ClientSlots : AcctStop(id)
    \/ \E t \in Tenants, u \in LocalNames : DisconnectAllCalled("p1", t, u, Secret1)
    \/ \E f \in BOOLEAN : DisconnectAllLookup("p1", f)
    \/ DisconnectAllSend("p1")
    \/ DisconnectAllSettle("p1")
    \/ DisconnectAllReturn("p1")

SpecClient == Init /\ [][NextClient]_vars

----------------------------------------------------------------------------
(* voucher.service.ts: redeemVoucher step by step, beside generateBatch and *)
(* markAsSold                                                               *)

TenantId1 == <<"t","1">>
VoucherCode1 == <<"A","B","7">>
SubscriberId1 == <<"s","1">>
DayMs == 24 * 60 * 60 * 1000

\* The voucher rows of generateBatch (createMany, status GENERATED), with the
\* validity of their batch.
NewVoucher(id, tenantId, code, validityDays) ==
    [code |-> code, expiresAt |-> Null, id |-> id, redeemedAt |-> Null,
     redeemedById |-> Null, status |-> "GENERATED", tenantId |-> tenantId,
     validityDays |-> validityDays]

\* generateBatch with quantity 1.
generateBatch(tenantId, code, validityDays) ==
    /\ biz.voucher = {}
    /\ biz' = [biz EXCEPT !.voucher = {NewVoucher(1, tenantId, code, validityDays)}]
    /\ UNCHANGED <<db, last, pre, trk, pc, call, dels, ins, existing, outcome,
                   clock, wire, ret, hist, task>>

\* markAsSold: one updateMany on the GENERATED vouchers of the given ids.
markAsSold(tenantId, voucherIds) ==
    /\ biz' = [biz EXCEPT !.voucher =
                  {IF v.id \in voucherIds /\ v.tenantId = tenantId /\ v.status = "GENERATED"
                   THEN [v EXCEPT !.status = "SOLD"] ELSE v : v \in @}]
    /\ UNCHANGED <<db, last, pre, trk, pc, call, dels, ins, existing, outcome,
                   clock, wire, ret, hist, task>>

\* The vouchers findFirst may return: those of the tenant with the code in
\* upper case that are GENERATED or SOLD.
RedeemableVouchers(vouchers, tenantId, code) ==
    {v \in vouchers : /\ v.tenantId = tenantId
                      /\ v.code = toUpperCase(code)
                      /\ v.status \in {"GENERATED", "SOLD"}}

\* prisma.voucher.update({ where: { id: voucher.id }, data: { status:
\* "REDEEMED", ... } }): the row of that id is rewritten, whatever its status.
RedeemUpdate(vouchers, found, subscriberId, now) ==
    {IF v.id = found.id
     THEN [v EXCEPT !.status = "REDEEMED",
                    !.redeemedById = IF TruthyStr(subscriberId) THEN subscriberId ELSE Null,
                    !.redeemedAt = Some(now),
                    !.expiresAt = Some(now + found.validityDays * DayMs)]
     ELSE v : v \in vouchers}

\* redeemVoucher is called.
RedeemCalled(p, tenantId, code, subscriberId) ==
    /\ task[p].at \in {"idle", "returned"}
    /\ Len(task[p].done) < MaxCalls
    /\ task' = [task EXCEPT ![p] =
                   [at |-> "find", code |-> code, done |-> task[p].done,
                    found |-> Null, op |-> "redeemVoucher",
                    subscriberId |-> subscriberId, tenantId |-> tenantId]]
    /\ OnlyTask

\* await prisma.voucher.findFirst(...): without a voucher the handler
\* returns the failure.
RedeemFind(p) ==
    /\ task[p].op = "redeemVoucher"
    /\ task[p].at = "find"
    /\ LET hit == RedeemableVouchers(biz.voucher, task[p].tenantId, task[p].code)
       IN  IF hit = {}
           THEN task' = [task EXCEPT ![p].at = "returned",
                                     ![p].done = Append(@, [success |-> FALSE])]
           ELSE \E v \in hit :
                   task' = [task EXCEPT ![p].at = "update", ![p].found = Some(v)]
    /\ OnlyTask

\* await prisma.voucher.update(...), then the handler returns success.
RedeemWrite(p) ==
    /\ task[p].op = "redeemVoucher"
    /\ task[p].at = "update"
    /\ biz' = [biz EXCEPT !.voucher =
                  RedeemUpdate(@, task[p].found[1], task[p].subscriberId, clock)]
    /\ task' = [task EXCEPT
                   ![p].at = "returned",
                   ![p].done = Append(@, [expiresAt |-> clock + task[p].found[1].validityDays * DayMs,
                                          success |-> TRUE,
                                          voucher |-> task[p].found[1].id,
                                          was |-> {v.status : v \in {w \in biz.voucher :
                                                       w.id = task[p].found[1].id}}])]
    /\ OnlyBizAndTask

\* The codes the callers type: the voucher's code in lower case, and a code
\* of no voucher.
RedeemCodes == {<<"a","b","7">>, <<"Z","Z","9">>}

NextVoucher ==
    \/ generateBatch(TenantId1, VoucherCode1, 1)
    \/ markAsSold(TenantId1, {1})
    \/ \E p \in Callers, code \in RedeemCodes, sub \in {Null, Some(SubscriberId1)} :
         RedeemCalled(p, TenantId1, code, sub)
    \/ \E p \in Callers : RedeemFind(p)
    \/ \E p \in Callers : RedeemWrite(p)

SpecVoucher == Init /\ [][NextVoucher]_vars

----------------------------------------------------------------------------
(* otp.service.ts: sendOtp, and verifyOtp step by step *)

OTP_EXPIRY_MINUTES == 5

OTP_MAX_ATTEMPTS == 3

Phone1 == <<"9","1">>

PurposeLogin == <<"L","O","G","I","N">>

\* The codes generateOtp can draw, and the codes the callers type.
OtpCodes == {<<"1","2","3","4","5","6">>, <<"6","5","4","3","2","1">>}

OtpIds == {1, 2}

\* The row prisma.otp.create stores: attempts and verified take the column
\* defaults, createdAt is the time of the insert.
NewOtp(id, tenantId, phone, code, purpose, now) ==
    [attempts |-> 0, code |-> code, createdAt |-> now,
     expiresAt |-> now + OTP_EXPIRY_MINUTES * 60 * 1000, id |-> id,
     phone |-> phone, purpose |-> purpose, tenantId |-> tenantId,
     verified |-> FALSE]

\* The rows sendOtp's findFirst looks for: created within the last minute.
RecentOtps(otps, tenantId, phone, purpose, now) ==
    {o \in otps : /\ o.tenantId = tenantId
                  /\ o.phone = phone
                  /\ o.purpose = purpose
                  /\ o.createdAt >= now - 60 * 1000}

\* sendOtp: refused within a minute of the previous one; otherwise the
\* generated code is stored.  The text message leaves the store alone.
sendOtp(tenantId, phone, purpose, code) ==
    /\ Cardinality(biz.otp) < Cardinality(OtpIds)
    /\ biz' = [biz EXCEPT !.otp =
                  IF RecentOtps(@, tenantId, phone, purpose, clock) # {}
                  THEN @
                  ELSE @ \cup {NewOtp(Cardinality(@) + 1, tenantId, phone, code,
                                      purpose, clock)}]
    /\ UNCHANGED task
    /\ OnlyBizAndTask

\* findFirst({ where: { tenantId, phone, purpose, verified: false },
\*             orderBy: { createdAt: "desc" } })
LatestUnverified(otps, tenantId, phone, purpose) ==
    LET hit == {o \in otps : /\ o.tenantId = tenantId
                             /\ o.phone = phone
                             /\ o.purpose = purpose
                             /\ ~o.verified}
    IN  {o \in hit : \A q \in hit : q.createdAt <= o.createdAt}

\* prisma.otp.update({ where: { id }, data: { attempts } })
SetAttempts(otps, id, attempts) ==
    {IF o.id = id THEN [o EXCEPT !.attempts = attempts] ELSE o : o \in otps}

\* prisma.otp.update({ where: { id }, data: { verified: true } })
SetVerified(otps, id) ==
    {IF o.id = id THEN [o EXCEPT !.verified = TRUE] ELSE o : o \in otps}

\* The wrong-code answers already returned for the record, over all callers.
WrongAnswers(id) ==
    {pk \in Callers \X (1..MaxCalls) :
        /\ pk[2] <= Len(task[pk[1]].done)
        /\ task[pk[1]].done[pk[2]].error = "invalid"
        /\ task[pk[1]].done[pk[2]].otp = id}

\* The result the handler returns, with the record it was about and the
\* wrong-code answers that had been returned when the call began.
OtpResult(t, success, error, id) ==
    [error |-> error, otp |-> id, seen |-> t.seen, success |-> success]

VerifyCalled(p, tenantId, phone, code, purpose) ==
    /\ task[p].at \in {"idle", "returned"}
    /\ Len(task[p].done) < MaxCalls
    /\ task' = [task EXCEPT ![p] =
                   [at |-> "find", code |-> code, done |-> task[p].done,
                    op |-> "verifyOtp", otp |-> Null, phone |-> phone,
                    purpose |-> purpose,
                    seen |-> [id \in OtpIds |-> Cardinality(WrongAnswers(id))],
                    tenantId |-> tenantId]]
    /\ OnlyTask

\* await prisma.otp.findFirst(...), then the checks up to the next await:
\* no record, expired, too many attempts, and the comparison of the code.
VerifyFind(p) ==
    /\ task[p].op = "verifyOtp"
    /\ task[p].at = "find"
    /\ LET hit == LatestUnverified(biz.otp, task[p].tenantId, task[p].phone,
                                   task[p].purpose)
       IN  IF hit = {}
           THEN task' = [task EXCEPT
                    ![p].at = "returned",
                    ![p].done = Append(@, OtpResult(task[p], FALSE, "none", 0))]
           ELSE \E otp \in hit :
                   IF clock > otp.expiresAt
                   THEN task' = [task EXCEPT
                            ![p].at = "returned",
                            ![p].done = Append(@, OtpResult(task[p], FALSE, "expired", otp.id))]
                   ELSE IF otp.attempts >= OTP_MAX_ATTEMPTS
                   THEN task' = [task EXCEPT
                            ![p].at = "returned",
                            ![p].done = Append(@, OtpResult(task[p], FALSE, "locked", otp.id))]
                   ELSE IF otp.code # task[p].code
                   THEN task' = [task EXCEPT ![p].at = "bump", ![p].otp = Some(otp)]
                   ELSE task' = [task EXCEPT ![p].at = "mark", ![p].otp = Some(otp)]
    /\ OnlyTask

\* await prisma.otp.update({ data: { attempts: otp.attempts + 1 } }) with the
\* attempts read by the findFirst, then the "Invalid OTP" answer.
VerifyBump(p) ==
    /\ task[p].op = "verifyOtp"
    /\ task[p].at = "bump"
    /\ biz' = [biz EXCEPT !.otp =
                  SetAttempts(@, task[p].otp[1].id, task[p].otp[1].attempts + 1)]
    /\ task' = [task EXCEPT
                   ![p].at = "returned",
                   ![p].done = Append(@, OtpResult(task[p], FALSE, "invalid",
                                                   task[p].otp[1].id))]
    /\ OnlyBizAndTask

\* await prisma.otp.update({ data: { verified: true } }), then success.
VerifyMark(p) ==
    /\ task[p].op = "verifyOtp"
    /\ task[p].at = "mark"
    /\ biz' = [biz EXCEPT !.otp = SetVerified(@, task[p].otp[1].id)]
    /\ task' = [task EXCEPT
                   ![p].at = "returned",
                   ![p].done = Append(@, OtpResult(task[p], TRUE, "", task[p].otp[1].id))]
    /\ OnlyBizAndTask

NextOtp ==
    \/ \E code \in OtpCodes : sendOtp(TenantId1, Phone1, PurposeLogin, code)
    \/ Tick
    \/ \E p \in Callers, code \in OtpCodes :
         VerifyCalled(p, TenantId1, Phone1, code, PurposeLogin)
    \/ \E p \in Callers : VerifyFind(p)
    \/ \E p \in Callers : VerifyBump(p)
    \/ \E p \in Callers : VerifyMark(p)

SpecOtp == Init /\ [][NextOtp]_vars

----------------------------------------------------------------------------
(* The trusted-client table (nas): syncNasDevice and removeNasDevice *)

LowerChar(c) ==
    IF \E i \in 1..Len(UpperAlphabet) : UpperAlphabet[i] = c
    THEN LowerAlphabet[CHOOSE i \in 1..Len(UpperAlphabet) : UpperAlphabet[i] = c]
    ELSE c

\* String.prototype.toLowerCase
toLowerCase(str) == [i \in 1..Len(str) |-> LowerChar(str[i])]

\* String.prototype.substring(start, end), for 0 <= start <= end
substring(str, start, end) ==
    SubSeq(str, start + 1, IF end < Len(str) THEN end ELSE Len(str))

ShortnameLimit == 32

NasDevice(nasIp, name, nasType, secret, description) ==
    [description |-> description, name |-> name, nasIp |-> nasIp, nasType |-> nasType,
     secret |-> secret]

\* The create branch of the upsert; an undefined description is stored as NULL.
NasCreateRow(nas) ==
    [description |-> IF TruthyStr(nas.description) THEN nas.description ELSE Null,
     nasname |-> nas.nasIp, secret |-> nas.secret,
     shortname |-> substring(nas.name, 0, ShortnameLimit),
     type |-> toLowerCase(nas.nasType)]

\* The update branch of the upsert; an undefined description leaves the column as it is.
NasUpdateRow(r, nas) ==
    [r EXCEPT !.description = IF TruthyStr(nas.description) THEN nas.description ELSE @,
              !.secret = nas.secret,
              !.shortname = substring(nas.name, 0, ShortnameLimit),
              !.type = toLowerCase(nas.nasType)]

\* Variant: the row is created whether or not one exists for the address.
UpsertNasAlwaysCreates(bag, nas) == InsertRow(bag, NasCreateRow(nas))

\* prisma.radNas.upsert({ where: { nasname }, create, update })
UpsertNas(bag, nas) ==
    LET hit == {r \in BagToSet(bag) : r.nasname = nas.nasIp}
    IN  IF hit = {} THEN InsertRow(bag, NasCreateRow(nas))
        ELSE DeleteRows(bag, [nasname |-> nas.nasIp])
             (+) SetToBag({NasUpdateRow(r, nas) : r \in hit})

\* An error object, with its code when it has one.
ErrorWithCode(code) == [code |-> code]
NotFound == ErrorWithCode(Some(<<"P","2","0","2","5">>))

\* prisma.radNas.delete({ where: { nasname } }): the row is deleted, or the
\* call rejects with P2025 when there is none.
DeleteNas(bag, nasIp) ==
    IF \E r \in BagToSet(bag) : r.nasname = nasIp
    THEN [error |-> Null, rows |-> DeleteRows(bag, [nasname |-> nasIp])]
    ELSE [error |-> Some(NotFound), rows |-> bag]

\* Variant: the catch block rethrows every error.
RemoveNasRethrowsAll(error) ==
    IF error = Null THEN Returns(<<>>) ELSE Throws(error[1])

\* The try / catch of removeNasDevice around the delete.
RemoveNasReturn(error) ==
    IF error = Null THEN Returns(<<>>)
    ELSE IF error[1].code = Some(<<"P","2","0","2","5">>)
         THEN Returns(<<>>)
         ELSE Throws(error[1])

\* Failures of the store other than not-found: with a code, and without one.
StoreFaults == {ErrorWithCode(Some(<<"P","1","0","0","1">>)), ErrorWithCode(Null)}

\* The call is recorded together with the one before it.
NasCallDone(c) ==
    /\ CallDone(c)
    /\ hist' = [call |-> last, ret |-> ret]
    /\ UNCHANGED <<clock, wire>>

syncNasDevice(nas, fault) ==
    /\ IF fault = Null
       THEN /\ db' = [db EXCEPT !["nas"] = UpsertNas(@, nas)]
            /\ ret' = Returns(<<>>)
       ELSE /\ db' = db
            /\ ret' = Throws(fault[1])
    /\ NasCallDone([at |-> clock, fault |-> fault, nas |-> nas, op |-> "syncNas"])

removeNasDevice(nasIp, fault) ==
    /\ LET done == IF fault = Null THEN DeleteNas(db["nas"], nasIp)
                   ELSE [error |-> fault, rows |-> db["nas"]]
       IN  /\ db' = [db EXCEPT !["nas"] = done.rows]
           /\ ret' = RemoveNasReturn(done.error)
    /\ NasCallDone([at |-> clock, fault |-> fault, nasIp |-> nasIp, op |-> "removeNas"])

Secret2 == <<"k","e","y","2">>
ShortName == <<"r","1">>
\* A name one character longer than the shortname column.
LongName == [i \in 1..(ShortnameLimit + 1) |-> IF i > ShortnameLimit THEN "z" ELSE "n"]
Mikrotik == <<"M","I","K","R","O","T","I","K">>
OtherNas == <<"O","T","H","E","R">>
Lab == <<"l","a","b">>

NasDevices ==
    {NasDevice(Nas1, ShortName, Mikrotik, Secret1, Null),
     NasDevice(Nas1, LongName, OtherNas, Secret2, Some(Lab)),
     NasDevice(Nas2, ShortName, Mikrotik, Secret1, Some(Lab))}

NextNas ==
    \/ \E nas \in NasDevices, fault \in {Null} \cup {Some(f) : f \in StoreFaults} :
         syncNasDevice(nas, fault)
    \/ \E ip \in NasIps, fault \in {Null} \cup {Some(f) : f \in StoreFaults} :
         removeNasDevice(ip, fault)

SpecNas == Init /\ [][NextNas]_vars

----------------------------------------------------------------------------
(* The pure functions of radius-utils.ts, applied to every input of a        *)
(* bounded set                                                               *)

\* The strings over a set of characters, 1 to n long.
Strings(chars, n) == UNION {[1..k -> chars] : k \in 1..n}

\* Tenant slugs: two without an underscore, one prefix of the other, and one
\* with an underscore (which the slug allocation rules out).
NameTenants == {<<"a">>, <<"a","b">>, <<"a","_">>}

\* Local usernames and plan ids, underscores included.
LocalIdentifiers == Strings({"b", "x", "_"}, MaxNameLen)

RatePlans ==
    {[Plan(PlanP, unit, 50, 30, <<bd, bu, th, bt>>, Null, "DAYS", 30, Null)
         EXCEPT !.priority = pr] :
        unit \in {"MBPS", "KBPS"},
        bd \in {Null, Some(0), Some(100)}, bu \in {Null, Some(0), Some(50)},
        th \in {Null, Some(0), Some(100)}, bt \in {Null, Some(0), Some(10)},
        pr \in {1, 8}}

\* Plans handed to planToRadiusAttributes: with and without burst, with no
\* pool name, an empty one and a set one, and every validity unit.
AttributePlans ==
    {Plan(PlanP, "MBPS", 50, 30, burst, pool, unit, n, Null) :
        burst \in {NoBurst, FullBurst}, pool \in {Null, Some(<<>>), Some(Pool1)},
        unit \in {"HOURS", "DAYS", "MONTHS"}, n \in {1, 2, 30}}

\* A pure function was applied: the application, the clock reading at the
\* application and its value are recorded.
Applied(c, v, h) ==
    /\ last' = c
    /\ ret' = Returns(v)
    /\ hist' = h
    /\ UNCHANGED <<db, pre, trk, pc, call, dels, ins, existing, outcome, clock, wire, biz, task>>

ApplyBuildRadiusUsername(tenantSlug, username) ==
    Applied([at |-> clock, id |-> username, op |-> "buildUsername", tenant |-> tenantSlug],
            buildRadiusUsername(tenantSlug, username), NoHist)

ApplyBuildRadiusGroupname(tenantSlug, planId) ==
    Applied([at |-> clock, id |-> planId, op |-> "buildGroupname", tenant |-> tenantSlug],
            buildRadiusGroupname(tenantSlug, planId), NoHist)

\* extractSubscriberUsername applied to the username that was just built.
ApplyExtractSubscriberUsername ==
    /\ last.op = "buildUsername"
    /\ Applied([at |-> clock, op |-> "extract", radiusUsername |-> ret.value],
               extractSubscriberUsername(ret.value), [call |-> last, ret |-> ret])

ApplyBuildMikroTikRateLimit(plan) ==
    Applied([at |-> clock, op |-> "rateLimit", plan |-> plan],
            buildMikroTikRateLimit(plan), NoHist)

ApplyPlanToRadiusAttributes(plan) ==
    Applied([at |-> clock, op |-> "planAttributes", plan |-> plan],
            planToRadiusAttributes(plan), NoHist)

\* Expiry dates with one-digit and two-digit days, in the first and the last
\* month of two years.
FormatDates ==
    {[day |-> d, month |-> m, year |-> y] :
        d \in {1, 5, 9, 10, 31}, m \in {0, 11}, y \in {2025, 2026}}

ApplyFormatRadiusExpiration(date) ==
    Applied([at |-> clock, date |-> date, op |-> "formatExpiration"],
            formatRadiusExpiration(date), NoHist)

NextNames ==
    \/ \E t \in NameTenants, u \in LocalIdentifiers : ApplyBuildRadiusUsername(t, u)
    \/ \E t \in NameTenants, id \in LocalIdentifiers : ApplyBuildRadiusGroupname(t, id)
    \/ ApplyExtractSubscriberUsername
    \/ \E pl \in RatePlans : ApplyBuildMikroTikRateLimit(pl)
    \/ \E pl \in AttributePlans : ApplyPlanToRadiusAttributes(pl)
    \/ \E date \in FormatDates : ApplyFormatRadiusExpiration(date)

SpecNames == Init /\ [][NextNames]_vars

----------------------------------------------------------------------------
(* Properties of the subscriber-level handlers *)

\* "{tenant}_{identifier}"
Scoped(tenant, identifier) == tenant \o <<"_">> \o identifier

RowCount(d, t, w) == BagCardinality(MatchingRows(d[t], w))

HasReject(d, u) ==
    \E r \in BagToSet(d["radcheck"]) :
        r.username = u /\ r.attribute = "Auth-Type" /\ r.value = Reject

RadiusNames == {Scoped(t, u) : t \in Tenants, u \in LocalNames}

\* C1: after disable(tenant, username) the check table holds an Auth-Type
\* row with value "Reject" for "{tenant}_{username}" and the membership table
\* holds no row for that username, whatever the rows were before.
C1_DisableRejectsAndStrips ==
    last.op = "disable" =>
        LET u == Scoped(last.tenant, last.username)
        IN  /\ HasReject(db, u)
            /\ RowCount(db, "radusergroup", [username |-> u]) = 0

\* A disable has run on a username that held a membership row.
C1_Witness ==
    /\ last.op = "disable"
    /\ RowCount(pre, "radusergroup",
                [username |-> Scoped(last.tenant, last.username)]) > 0

\* C2: in every reachable state, a username with a hard-reject check row has
\* no group-membership row.
C2_RejectedHoldsNoGrant ==
    \A u \in RadiusNames :
        HasReject(db, u) => RowCount(db, "radusergroup", [username |-> u]) = 0

\* C5 as stated: enable, disable, enable of one subscriber leaves the check
\* rows and membership rows that one enable leaves, from any starting rows.
C5_ToggleEqualsEnable ==
    Len(trk.calls) = 3 =>
        LET once == RunTx(EnableSubscriberProg(trk.calls[1].tenant,
                                               trk.calls[1].subscriber), trk.start)
        IN  /\ db["radcheck"] = once["radcheck"]
            /\ db["radusergroup"] = once["radusergroup"]

\* The membership rows of the subscriber's username are those its plan calls
\* for: none, or the single row naming the plan's group.
MembershipSettled(d, tenant, subscriber) ==
    LET u == Scoped(tenant, subscriber.username)
        rows == MatchingRows(d["radusergroup"], [username |-> u])
    IN  \/ rows = EmptyBag
        \/ /\ TruthyStr(subscriber.planId)
           /\ rows = SetToBag({[groupname |-> Scoped(tenant, subscriber.planId[1]),
                                priority |-> 1, username |-> u]})

\* C5 amended: enable, disable, enable leaves the check rows that one enable
\* leaves from any starting rows, and the membership rows that one enable
\* leaves when the username started with no membership row or with exactly
\* the row naming the subscriber's plan group.
C5_ToggleEqualsEnableWhenSettled ==
    Len(trk.calls) = 3 =>
        LET once == RunTx(EnableSubscriberProg(trk.calls[1].tenant,
                                               trk.calls[1].subscriber), trk.start)
        IN  /\ db["radcheck"] = once["radcheck"]
            /\ MembershipSettled(trk.start, trk.calls[1].tenant, trk.calls[1].subscriber)
                 => db["radusergroup"] = once["radusergroup"]

\* enable, disable, enable has run for a subscriber with a plan who started
\* disabled and mapped to that plan's group.
C5_Witness ==
    /\ Len(trk.calls) = 3
    /\ TruthyStr(trk.calls[1].subscriber.planId)
    /\ HasReject(trk.start, Scoped(trk.calls[1].tenant, trk.calls[1].subscriber.username))
    /\ RowCount(trk.start, "radusergroup",
                [username |-> Scoped(trk.calls[1].tenant,
                                     trk.calls[1].subscriber.username)]) = 1
    /\ MembershipSettled(trk.start, trk.calls[1].tenant, trk.calls[1].subscriber)

\* C6: starting from an empty check table, the check table holds at most one
\* row for each (username, attribute) pair.
C6_OneCheckRowPerAttribute ==
    \A r \in BagToSet(db["radcheck"]) :
        RowCount(db, "radcheck", [attribute |-> r.attribute, username |-> r.username]) <= 1

\* A syncAuth or enable has replaced an Expiration row by one with another value.
C6_Witness ==
    /\ last.op \in {"syncAuth", "enable"}
    /\ \E r \in BagToSet(pre["radcheck"]), q \in BagToSet(db["radcheck"]) :
          /\ r.attribute = "Expiration" /\ q.attribute = "Expiration"
          /\ r.username = q.username
          /\ r.value # q.value
    /\ BagCardinality(db["radcheck"]) >= 3

\* C7: starting from an empty membership table, every username has at most
\* one group-membership row, and that row has priority 1.
C7_OneMembershipAtPriorityOne ==
    /\ \A r \in BagToSet(db["radusergroup"]) :
          /\ RowCount(db, "radusergroup", [username |-> r.username]) <= 1
          /\ r.priority = 1

\* An enable has run for a subscriber with a plan whose username already
\* held a membership row.
C7_Witness ==
    /\ last.op = "enable"
    /\ TruthyStr(last.subscriber.planId)
    /\ RowCount(pre, "radusergroup",
                [username |-> Scoped(last.tenant, last.subscriber.username)]) = 1
    /\ RowCount(db, "radusergroup",
                [username |-> Scoped(last.tenant, last.subscriber.username)]) = 1

\* C8: after syncPlan(tenant, username, planId) the membership rows of
\* "{tenant}_{username}" are exactly one row naming "{tenant}_{planId}" when a
\* plan id is given, and none when it is null, whatever rows existed before.
C8_SyncPlanReplacesMembership ==
    last.op = "syncPlan" =>
        LET u == Scoped(last.tenant, last.username)
            rows == MatchingRows(db["radusergroup"], [username |-> u])
        IN  IF last.planId # Null
            THEN /\ BagCardinality(rows) = 1
                 /\ \A r \in BagToSet(rows) :
                       r.groupname = Scoped(last.tenant, last.planId[1])
            ELSE rows = EmptyBag

\* syncPlan with a null plan id has run on a username that held a membership row.
C8_Witness ==
    /\ last.op = "syncPlan"
    /\ last.planId = Null
    /\ RowCount(pre, "radusergroup",
                [username |-> Scoped(last.tenant, last.username)]) = 1

----------------------------------------------------------------------------
(* Properties of the plan-level handlers *)

GroupRows(d, t, g) == MatchingRows(d[t], [groupname |-> g])

\* C9: syncPlanBandwidth run twice in succession with the same plan leaves
\* exactly one group-check row for the plan's group and the group-reply rows
\* that the first run left.
C9_SyncPlanBandwidthTwice ==
    (Len(trk.calls) = 2 /\ last.op = "syncPlanBandwidth") =>
        LET g == Scoped(last.tenant, last.plan.id)
        IN  /\ BagCardinality(GroupRows(db, "radgroupcheck", g)) = 1
            /\ GroupRows(db, "radgroupreply", g) = GroupRows(pre, "radgroupreply", g)

\* syncPlanBandwidth has run twice in succession with a plan that has three
\* reply attributes.
C9_Witness ==
    /\ Len(trk.calls) = 2
    /\ last.op = "syncPlanBandwidth"
    /\ BagCardinality(GroupRows(db, "radgroupreply", Scoped(last.tenant, last.plan.id))) = 3

----------------------------------------------------------------------------
(* Properties of the transactions *)

\* What a statement of another connection (the authentication daemon's
\* queries) reads: the committed rows.
Visible == db

\* C3: a reader running concurrently with a synchronization operation sees
\* either all the rows from before the operation or all the rows from after
\* it, never the old rows deleted and the new rows not yet inserted.
C3_ReaderSeesBeforeOrAfter ==
    last.op # "none" =>
        \/ Visible = pre
        \/ Visible = RunTx(ProgOf(last), pre)

\* A transaction is open that has deleted a committed row and inserted its
\* replacement, with the commit still to come.
C3_Witness ==
    /\ pc["c1"] > 1
    /\ \E t \in Tables :
          /\ dels["c1"][t] # EmptyBag
          /\ ins["c1"][t] # EmptyBag
          /\ ins["c1"][t] # dels["c1"][t]

\* C4: when a delete or insert step of a synchronization operation fails,
\* the stored rows equal the rows before the call and the error reaches the
\* caller.
C4_FailureLeavesRowsUntouched ==
    \A k \in Conns :
        /\ outcome[k].result = "threw" => db = pre
        /\ (pc[k] = 0 /\ call[k].op # "none") => outcome[k].result \in {"threw", "returned"}
        /\ (outcome[k].result = "returned" /\ pc[k] = 0)
              => outcome[k].at = Len(ProgOf(call[k])) + 1

\* A call has thrown at its third statement or later, after its transaction
\* had deleted committed rows.
C4_Witness ==
    /\ outcome["c1"].result = "threw"
    /\ outcome["c1"].at >= 3
    /\ last.op = "disable"
    /\ RowCount(pre, "radusergroup", [username |-> Scoped(last.tenant, last.username)]) > 0
    /\ HasReject(pre, Scoped(last.tenant, last.username))

----------------------------------------------------------------------------
(* Properties of the device control client *)

\* C11: disconnectUser and changeBandwidth never throw: on a negative
\* acknowledgment, a timeout or a transport error the call returns false, and
\* it returns true only when the NAS acknowledged the request.
C11_ControlCallsReturnBoolean ==
    last.op \in {"disconnectUser", "changeUserBandwidth"} =>
        /\ ret.kind = "returned"
        /\ ret.value \in BOOLEAN
        /\ Len(wire) = 1
        /\ wire[1].outcome \in {"nak", "timeout", "error"} => ret.value = FALSE
        /\ ret.value = TRUE <=> wire[1].outcome = "ack"

\* A rate change met a transport error that made the request's promise reject.
C11_Witness ==
    /\ last.op = "changeUserBandwidth"
    /\ wire[1].outcome = "error"
    /\ wire[1].settled.kind = "rejected"
    /\ ret = [kind |-> "returned", value |-> FALSE]

Acknowledged(w) == Cardinality({i \in 1..Len(w) : w[i].outcome = "ack"})

\* The NAS addresses of the open sessions of a username, as a bag.
OpenSessionAddresses(d, u) ==
    LET open == {r \in AcctRows(d) : r.username = u /\ r.acctstoptime = Null}
        ips == {r.nasipaddress : r \in open}
    IN  [ip \in ips |-> Cardinality({r \in open : r.nasipaddress = ip})]

RequestAddresses(w) ==
    LET ips == {w[i].nasIp : i \in 1..Len(w)}
    IN  [ip \in ips |-> Cardinality({i \in 1..Len(w) : w[i].nasIp = ip})]

C13_FailureDoesNotStopTheRest ==
    (/\ last.op = "disconnectAll"
     /\ \E i \in 1..Len(wire) : wire[i].outcome # "ack") =>
        /\ ret.kind = "returned"
        /\ Len(wire) = Cardinality(UserActiveSessions(pre, last.tenant, last.username))

\* The first of two requests met a transport error that made its promise
\* reject, and the second was sent and acknowledged.
C13_Witness ==
    /\ last.op = "disconnectAll"
    /\ Len(wire) = 2
    /\ wire[1].outcome = "error"
    /\ wire[1].settled.kind = "rejected"
    /\ wire[2].outcome = "ack"
    /\ ret = [kind |-> "returned", value |-> 1]

----------------------------------------------------------------------------
(* Properties of the stale-session sweep *)

\* The tenant a RADIUS username belongs to: what precedes its first underscore.
TenantOf(u) ==
    LET i == CHOOSE k \in 1..Len(u) : u[k] = "_" /\ \A j \in 1..(k - 1) : u[j] # "_"
    IN  SubSeq(u, 1, i - 1)

\* The record is open, in the scope of the sweep, and its last sign of life
\* (the last update, or the start when it was never updated) is older than
\* the given number of minutes.
IsStale(r, tenant, minutes, nowMs) ==
    /\ r.acctstoptime = Null
    /\ tenant # Null => TenantOf(r.username) = tenant[1]
    /\ LET seen == IF r.acctupdatetime # Null THEN r.acctupdatetime[1] ELSE r.acctstarttime
       IN  nowMs - seen > minutes * 60 * 1000

\* C14: cleanupStale(tenant?, threshold) closes (stop-time now, termination
\* cause the sentinel) exactly the open records in scope whose last update is
\* older than the threshold, or that have no last update and started before
\* the threshold; every other record stays as it was.
C14_SweepClosesExactlyTheStale ==
    (last.op = "cleanupStale" /\ ~last.fails) =>
        LET minutes == IF last.minutes = Null THEN 15 ELSE last.minutes[1]
        IN  /\ BagCardinality(db["radacct"]) = BagCardinality(pre["radacct"])
            /\ \A r \in AcctRows(pre) :
                  IF IsStale(r, last.tenant, minutes, last.at)
                  THEN /\ CopiesIn([r EXCEPT !.acctstoptime = Some(last.at),
                                             !.acctterminatecause = <<"Stale-Session">>],
                                   db["radacct"]) = 1
                       /\ CopiesIn(r, db["radacct"]) = 0
                  ELSE CopiesIn(r, db["radacct"]) = 1

\* A sweep with the default threshold closed a never-updated record started
\* 20 minutes before and left open one started 10 minutes before.
C14_Witness ==
    /\ last.op = "cleanupStale"
    /\ ~last.fails
    /\ last.minutes = Null
    /\ \E r, q \in AcctRows(pre) :
          /\ r.acctstoptime = Null /\ r.acctupdatetime = Null
          /\ last.at - r.acctstarttime = 20 * 60 * 1000
          /\ q.acctstoptime = Null /\ q.acctupdatetime = Null
          /\ last.at - q.acctstarttime = 10 * 60 * 1000
          /\ CopiesIn(r, db["radacct"]) = 0
          /\ CopiesIn(q, db["radacct"]) = 1

\* A step of the sweep.
SweepStep ==
    /\ last'.op = "cleanupStale"
    /\ cleanupStaleSessions(last'.tenant, last'.minutes, last'.fails)

AcctFields == {"acctstarttime", "acctstoptime", "acctterminatecause", "acctupdatetime",
               "nasipaddress", "radacctid", "username"}

ClockValues == {0, 10 * 60 * 1000, 20 * 60 * 1000}

\* Other values a column of an accounting row may hold.
FieldValues(f) ==
    CASE f = "acctstarttime"      -> ClockValues
      [] f = "acctstoptime"       -> {Null} \cup {Some(t) : t \in ClockValues}
      [] f = "acctupdatetime"     -> {Null} \cup {Some(t) : t \in ClockValues}
      [] f = "acctterminatecause" -> {<<>>, <<"User-Request">>, <<"Stale-Session">>}
      [] f = "nasipaddress"       -> NasIps
      [] f = "radacctid"          -> 1..Len(SessionSlots)
      [] f = "username"           -> {SessionSlots[i].username : i \in 1..Len(SessionSlots)}

\* The sweep called as c reads column f: some row of d would be selected or
\* not according to the value of f alone.
SweepReads(f, c, d) ==
    \E r \in AcctRows(d), v \in FieldValues(f) :
        StaleWhere([r EXCEPT ![f] = v], c.tenant, StaleThreshold(c.at, c.minutes))
            # StaleWhere(r, c.tenant, StaleThreshold(c.at, c.minutes))

\* The step from rows d to rows e changed column f of some record.
SweepWrote(f, d, e) ==
    \E r \in AcctRows(d), q \in AcctRows(e) : r.radacctid = q.radacctid /\ r[f] # q[f]

\* A step that only moves accounting records from open to closed.
OnlyCloses(d, e) ==
    /\ \A t \in Tables \ {"radacct"} : e[t] = d[t]
    /\ BagCardinality(e["radacct"]) = BagCardinality(d["radacct"])
    /\ \A r \in AcctRows(d) : r.acctstoptime # Null => CopiesIn(r, e["radacct"]) = 1
    /\ \A q \in AcctRows(e) : q.acctstoptime = Null => CopiesIn(q, d["radacct"]) = 1

\* C15 as stated: in any interleaving with the synchronization operations the
\* sweep only moves accounting records from open to closed, changes no other
\* row, and reads only columns it does not write.
C15_SweepReadsOnlyWhatItDoesNotWrite ==
    [][SweepStep =>
          /\ OnlyCloses(db, db')
          /\ \A f \in AcctFields : ~(SweepReads(f, last', db) /\ SweepWrote(f, db, db'))]_vars

\* C15 amended: in any interleaving with the synchronization operations the
\* sweep only moves accounting records from open to closed, changes no other
\* row, writes only the stop time and the termination cause, and the only
\* column it both reads and writes is the stop time.
C15_SweepOnlyCloses ==
    [][SweepStep =>
          /\ OnlyCloses(db, db')
          /\ \A f \in AcctFields :
                /\ SweepWrote(f, db, db') => f \in {"acctstoptime", "acctterminatecause"}
                /\ (SweepReads(f, last', db) /\ SweepWrote(f, db, db')) => f = "acctstoptime"]_vars

\* A sweep has run while a synchronization transaction was open: it closed a
\* record and met another that was closed already.
C15_Witness ==
    /\ last.op = "cleanupStale"
    /\ pc["c1"] > 1
    /\ ret.kind = "returned"
    /\ ret.value >= 1
    /\ \E r \in AcctRows(pre) : r.acctstoptime # Null /\ r.acctterminatecause = <<"User-Request">>

----------------------------------------------------------------------------
(* Properties of the trusted-client table *)

NasRowsOf(d, ip) == MatchingRows(d["nas"], [nasname |-> ip])

\* C16: removeDevice(ip) succeeds when no trusted-client row exists for the
\* address, so that calling it twice equals calling it once, and propagates
\* every failure other than not-found to the caller.
C16_RemoveDeviceIsIdempotent ==
    last.op = "removeNas" =>
        IF last.fault = Null
        THEN /\ ret.kind = "returned"
             /\ NasRowsOf(db, last.nasIp) = EmptyBag
             /\ db["nas"] (+) NasRowsOf(pre, last.nasIp) = pre["nas"]
             /\ (hist.call = last /\ hist.ret.kind = "returned") => db = pre
        ELSE /\ ret = [kind |-> "threw", value |-> last.fault[1]]
             /\ db = pre

\* removeDevice was called twice in a row for an address: the second call
\* found no row, succeeded, and left the other device's row in place.
C16_Witness ==
    /\ last.op = "removeNas"
    /\ last.fault = Null
    /\ hist.call = last
    /\ ret.kind = "returned"
    /\ NasRowsOf(pre, last.nasIp) = EmptyBag
    /\ pre["nas"] # EmptyBag

IsPrefixOfLength(short, str, n) ==
    /\ Len(short) = (IF Len(str) < n THEN Len(str) ELSE n)
    /\ \A i \in 1..Len(short) : short[i] = str[i]

IsLowerCased(low, str) ==
    /\ Len(low) = Len(str)
    /\ \A i \in 1..Len(str) :
          /\ UpperChar(low[i]) = UpperChar(str[i])
          /\ \A k \in 1..Len(UpperAlphabet) : low[i] # UpperAlphabet[k]

\* C17: the trusted-client table holds at most one row per address; after
\* syncDevice(nas) that row carries the device's secret, its name cut to the
\* first 32 characters and its type lower-cased; and syncDevice(nas) called
\* twice leaves the table that one call leaves.
C17_SyncDeviceUpserts ==
    /\ \A r \in BagToSet(db["nas"]) : BagCardinality(NasRowsOf(db, r.nasname)) = 1
    /\ (last.op = "syncNas" /\ last.fault = Null) =>
          /\ ret.kind = "returned"
          /\ \A r \in BagToSet(NasRowsOf(db, last.nas.nasIp)) :
                /\ r.secret = last.nas.secret
                /\ IsPrefixOfLength(r.shortname, last.nas.name, 32)
                /\ IsLowerCased(r.type, last.nas.nasType)
          /\ BagCardinality(NasRowsOf(db, last.nas.nasIp)) = 1
          /\ (hist.call = last /\ hist.ret.kind = "returned") => db = pre

\* syncDevice ran twice in a row for a device with a 33-character name whose
\* address held another device's row before.
C17_Witness ==
    /\ last.op = "syncNas"
    /\ last.fault = Null
    /\ hist.call = last
    /\ hist.ret.kind = "returned"
    /\ Len(last.nas.name) = 33
    /\ \E r \in BagToSet(NasRowsOf(db, last.nas.nasIp)) :
          Len(r.shortname) = 32 /\ r.type = <<"o","t","h","e","r">>
    /\ BagCardinality(db["nas"]) = 2

----------------------------------------------------------------------------
(* Properties of the naming and rate-limit functions *)

HasUnderscore(str) == \E i \in 1..Len(str) : str[i] = "_"

\* C18: for a tenant slug without an underscore and any local username,
\* underscores included, extractLocalUsername(buildUsername(tenant,
\* localUsername)) is localUsername.
C18_ExtractInvertsBuild ==
    (/\ last.op = "extract"
     /\ hist.call.op = "buildUsername"
     /\ ~HasUnderscore(hist.call.tenant)) =>
        /\ last.radiusUsername = hist.ret.value
        /\ ret.value = hist.call.id

\* The local username of a built username with two underscores of its own
\* was extracted.
C18_Witness ==
    /\ last.op = "extract"
    /\ hist.call.op = "buildUsername"
    /\ hist.call.tenant = <<"a","b">>
    /\ hist.call.id = <<"_","x","_">>
    /\ ret.value = <<"_","x","_">>

\* C19: for tenant slugs without underscores buildUsername and buildGroupname
\* are collision-free: the name built for one (tenant, identifier) pair is
\* built for no other pair.
C19_NamesAreCollisionFree ==
    (last.op \in {"buildUsername", "buildGroupname"} /\ ~HasUnderscore(last.tenant)) =>
        \A t \in {n \in NameTenants : ~HasUnderscore(n)}, id \in LocalIdentifiers :
            <<t, id>> # <<last.tenant, last.id>> =>
                /\ last.op = "buildUsername" => buildRadiusUsername(t, id) # ret.value
                /\ last.op = "buildGroupname" => buildRadiusGroupname(t, id) # ret.value

\* A name was built for tenant "a" and an identifier starting with "b",
\* beside tenant "ab".
C19_Witness ==
    /\ last.op = "buildUsername"
    /\ last.tenant = <<"a">>
    /\ last.id = <<"b","_","x">>
    /\ ret.value = <<"a","_","b","_","x">>

Present(o) == o # Null /\ o[1] # 0

\* C20: buildRateLimitString yields exactly the base form
\* "{down}{unit}/{up}{unit}" when burst download, burst upload or burst
\* duration is missing or zero, and exactly five space-separated fields in
\* the documented order (rates, burst rates, thresholds, burst times,
\* priority) when all three are present and non-zero.
C20_RateLimitFieldCount ==
    last.op = "rateLimit" =>
        LET plan   == last.plan
            unit   == IF plan.speedUnit = "MBPS" THEN <<"M">> ELSE <<"k">>
            base   == NatToStr(plan.downloadSpeed) \o unit \o <<"/">>
                        \o NatToStr(plan.uploadSpeed) \o unit
            fields == split(ret.value, " ")
        IN  IF /\ Present(plan.burstDownloadSpeed)
               /\ Present(plan.burstUploadSpeed)
               /\ Present(plan.burstTime)
            THEN /\ Len(fields) = 5
                 /\ fields[1] = base
                 /\ fields[2] = NatToStr(plan.burstDownloadSpeed[1]) \o unit \o <<"/">>
                                  \o NatToStr(plan.burstUploadSpeed[1]) \o unit
                 /\ LET halves == split(fields[3], "/")
                        t == IF Present(plan.burstThreshold) THEN plan.burstThreshold[1] ELSE 0
                    IN  /\ Len(halves) = 2
                        /\ halves[1] = halves[2]
                        /\ StartsWith(halves[1], NatToStr(t))
                 /\ fields[4] = NatToStr(plan.burstTime[1]) \o <<"s","/">>
                                  \o NatToStr(plan.burstTime[1]) \o <<"s">>
                 /\ fields[5] = NatToStr(plan.priority)
            ELSE /\ ret.value = base
                 /\ Len(fields) = 1
                 /\ Len(split(ret.value, "/")) = 2

\* The rate limit was built for a plan whose burst rates are set and whose
\* burst duration is zero.
C20_Witness ==
    /\ last.op = "rateLimit"
    /\ last.plan.burstDownloadSpeed = Some(100)
    /\ last.plan.burstUploadSpeed = Some(50)
    /\ last.plan.burstTime = Some(0)
    /\ ret.value = <<"5","0","M","/","3","0","M">>

\* C21: in the burst form the third field is "{t}k/{t}k", t being the plan's
\* burst threshold or 0 when the threshold is unset or zero, and the fourth
\* field is "{burstSec}s/{burstSec}s"; threshold 100, burst time 10 and
\* priority 1 give "50M/30M 100M/50M 100k/100k 10s/10s 1".
C21_ThresholdFieldHasUnit ==
    (/\ last.op = "rateLimit"
     /\ Present(last.plan.burstDownloadSpeed)
     /\ Present(last.plan.burstUploadSpeed)
     /\ Present(last.plan.burstTime)) =>
        LET plan   == last.plan
            fields == split(ret.value, " ")
            t      == IF Present(plan.burstThreshold) THEN plan.burstThreshold[1] ELSE 0
        IN  /\ Len(fields) >= 4
            /\ fields[3] = NatToStr(t) \o <<"k","/">> \o NatToStr(t) \o <<"k">>
            /\ fields[4] = NatToStr(plan.burstTime[1]) \o <<"s","/">>
                             \o NatToStr(plan.burstTime[1]) \o <<"s">>
            /\ (/\ plan.speedUnit = "MBPS" /\ plan.burstThreshold = Some(100)
                /\ plan.burstTime = Some(10) /\ plan.priority = 1) =>
                   ret.value = <<"5","0","M","/","3","0","M"," ",
                                 "1","0","0","M","/","5","0","M"," ",
                                 "1","0","0","k","/","1","0","0","k"," ",
                                 "1","0","s","/","1","0","s"," ","1">>

\* C22: planToAttributes returns the rate-limit attribute first with priority
\* 1, then the address-pool attribute with priority 2 if and only if a pool
\* name is configured, then the session-timeout attribute with priority 3 and
\* value validityValue * 3600 if and only if the validity unit is hour-based,
\* and no other attribute.
C22_PlanAttributes ==
    last.op = "planAttributes" =>
        LET plan    == last.plan
            attrs   == ret.value
            hasPool == plan.poolName # Null /\ plan.poolName[1] # <<>>
            hourly  == plan.validityUnit = "HOURS"
            at(n)   == {i \in 1..Len(attrs) : attrs[i].attribute = n}
        IN  /\ Len(attrs) = 1 + (IF hasPool THEN 1 ELSE 0) + (IF hourly THEN 1 ELSE 0)
            /\ attrs[1].attribute = "Mikrotik-Rate-Limit"
            /\ attrs[1].priority = 1
            /\ attrs[1].value = buildMikroTikRateLimit(plan)
            /\ hasPool <=> at("Framed-Pool") = {2}
            /\ hasPool => attrs[2].priority = 2 /\ attrs[2].value = plan.poolName[1]
            /\ hourly <=> at("Session-Timeout") = {Len(attrs)} /\ Len(attrs) > 1
            /\ hourly => /\ attrs[Len(attrs)].priority = 3
                         /\ attrs[Len(attrs)].value = NatToStr(plan.validityDays * 3600)
            /\ ~hasPool => at("Framed-Pool") = {}
            /\ ~hourly => at("Session-Timeout") = {}

\* The attributes of an hour-based plan with a pool name were derived: three
\* attributes, the last one a timeout of 7200 seconds.
C22_Witness ==
    /\ last.op = "planAttributes"
    /\ last.plan.poolName = Some(Pool1)
    /\ last.plan.validityUnit = "HOURS"
    /\ last.plan.validityDays = 2
    /\ Len(ret.value) = 3
    /\ ret.value[3].value = <<"7","2","0","0">>

----------------------------------------------------------------------------
(* Properties of the queries on the accounting records *)

\* Every row of the sequence carries a username of the tenant.
AllOfTenant(rows, tenant) ==
    \A i \in 1..Len(rows) : TenantOf(rows[i].username) = tenant

\* C23: for distinct tenant slugs without underscores, onlineUsers(t1),
\* activeSessions(t1, u), sessionHistory with tenant t1 and cleanupStale(t1)
\* never return or modify an accounting record whose username belongs to
\* another tenant, whatever filters are passed.
C23_QueriesStayInTheirTenant ==
    /\ (last.op \in {"getOnlineUsers", "getUserActiveSessions"} /\ ret.kind = "returned") =>
          /\ AllOfTenant(ret.value, last.tenant)
          /\ db = pre
    /\ (last.op = "getSessionHistory" /\ ret.kind = "returned") =>
          /\ AllOfTenant(ret.value.data, last.params.tenantSlug)
          /\ ret.value.meta.total <=
                Cardinality({r \in AcctRows(pre) :
                                TenantOf(r.username) = last.params.tenantSlug})
          /\ db = pre
    /\ (last.op = "cleanupStale" /\ last.tenant # Null) =>
          \A r \in AcctRows(pre) :
              TenantOf(r.username) # last.tenant[1] =>
                  CopiesIn(r, db["radacct"]) = CopiesIn(r, pre["radacct"])

\* onlineUsers("a") returned two records while tenant "ab" had an open one.
C23_Witness ==
    /\ last.op = "getOnlineUsers"
    /\ last.tenant = <<"a">>
    /\ ret.kind = "returned"
    /\ Len(ret.value) = 2
    /\ \E r \in AcctRows(db) : TenantOf(r.username) = <<"a","b">> /\ r.acctstoptime = Null

\* The smaller of two numbers.
Smaller(a, b) == IF a < b THEN a ELSE b

\* C24: sessionHistory with page p >= 1 and pageSize s >= 1 returns the
\* matching records at positions (p-1)*s+1 .. p*s in most-recent-start-first
\* order (at most s records), with meta.total equal to the number of all
\* matching records and meta.totalPages equal to ceil(total / s).
C24_HistoryPaging ==
    (last.op = "getSessionHistory" /\ ret.kind = "returned") =>
        LET p        == ret.value.meta.page
            s        == ret.value.meta.pageSize
            data     == ret.value.data
            matching == {r \in AcctRows(pre) : HistoryWhere(r, last.params)}
            total    == Cardinality(matching)
            first    == (p - 1) * s + 1
            upto     == Smaller(p * s, total)
        IN  /\ p = IF last.params.page = Null THEN 1 ELSE last.params.page[1]
            /\ s = IF last.params.pageSize = Null THEN 50 ELSE last.params.pageSize[1]
            /\ p >= 1 /\ s >= 1
            /\ Len(data) <= s
            /\ Len(data) = IF upto < first THEN 0 ELSE upto - first + 1
            /\ \E q \in [1..total -> matching] :
                  /\ \A i, j \in 1..total : i < j =>
                        /\ q[i] # q[j]
                        /\ q[i].acctstarttime >= q[j].acctstarttime
                  /\ \A i \in 1..Len(data) : data[i] = q[first + i - 1]
            /\ ret.value.meta.total = total
            /\ ret.value.meta.totalPages * s >= total
            /\ (ret.value.meta.totalPages - 1) * s < total \/ ret.value.meta.totalPages = 0

\* Page 2 of size 1 of two matching sessions that started at different
\* times: the older one is returned, as the second of two pages.
C24_Witness ==
    /\ last.op = "getSessionHistory"
    /\ ret.kind = "returned"
    /\ last.params.page = Some(2)
    /\ last.params.pageSize = Some(1)
    /\ ret.value.meta.total = 2
    /\ ret.value.meta.totalPages = 2
    /\ Len(ret.value.data) = 1
    /\ \E r \in AcctRows(db) :
          /\ HistoryWhere(r, last.params)
          /\ r.acctstarttime > ret.value.data[1].acctstarttime

----------------------------------------------------------------------------
(* Properties of the expiration check value *)

EndOfDay == <<"2","3",":","5","9",":","5","9">>

\* "{Mon} {day} {year} 23:59:59" with the day and the year in decimal
ExpirationShape(value, date) ==
    \E mon \in {MonthNames[i] : i \in 1..Len(MonthNames)} :
        /\ mon = MonthNames[date.month + 1]
        /\ Len(NatToStr(date.year)) = 4
        /\ value = mon \o <<" ">> \o NatToStr(date.day) \o <<" ">>
                       \o NatToStr(date.year) \o <<" ">> \o EndOfDay

\* C25: for every expiry date the expiration check value is
\* month-abbreviation, day, 4-digit year and the fixed time "23:59:59", and
\* it is fixed-width: the string has the same length for every date.
C25_ExpirationFixedWidth ==
    last.op = "formatExpiration" =>
        /\ ExpirationShape(ret.value, last.date)
        /\ \A other \in FormatDates :
              Len(ret.value) = Len(formatRadiusExpiration(other))

\* The part of C25 that the code keeps: the four fields and the fixed time.
C25_ExpirationFields ==
    last.op = "formatExpiration" => ExpirationShape(ret.value, last.date)

----------------------------------------------------------------------------
(* Properties of concurrent calls *)

\* Both of the two concurrent calls have committed and returned.
RaceDone ==
    /\ last.op = "concurrent"
    /\ Idle
    /\ \A k \in Conns : outcome[k].result = "returned"

\* The rows left by running the two calls one after the other, in each order.
SerialResults ==
    {RunTx(ProgOf(last.second), RunTx(ProgOf(last.first), pre)),
     RunTx(ProgOf(last.first), RunTx(ProgOf(last.second), pre))}

\* C26: for any interleaving of two concurrent synchronization operations
\* on the same username (two syncPlan calls, two enable calls, or an enable
\* with a disable), the final rows equal the result of running the two
\* operations in one of the two serial orders: at most one membership row,
\* at most one row per (username, attribute), and no membership row next to
\* a hard-reject row.
C26_ConcurrentCallsSerialize ==
    RaceDone =>
        /\ db \in SerialResults
        /\ \A u \in RadiusNames :
              /\ RowCount(db, "radusergroup", [username |-> u]) <= 1
              /\ \A a \in {"Auth-Type", "Expiration", "Calling-Station-Id"} :
                    RowCount(db, "radcheck", [attribute |-> a, username |-> u]) <= 1
              /\ ~(HasReject(db, u) /\ RowCount(db, "radusergroup", [username |-> u]) > 0)

----------------------------------------------------------------------------
(* Properties of enable, disable and syncAuth on the rows of one username *)

\* C27: after enable(tenant, subscriber) for a subscriber with no plan, the
\* username has no hard-reject row and no group-membership row, whatever
\* membership rows existed before the call.
C27_EnableWithoutPlanLeavesNoMembership ==
    (last.op = "enable" /\ ~TruthyStr(last.subscriber.planId)) =>
        LET u == Scoped(last.tenant, last.subscriber.username)
        IN  /\ ~HasReject(db, u)
            /\ RowCount(db, "radusergroup", [username |-> u]) = 0

\* The part of C27 that the code keeps: no hard-reject row is left.
C27_EnableWithoutPlanLeavesNoReject ==
    (last.op = "enable" /\ ~TruthyStr(last.subscriber.planId)) =>
        ~HasReject(db, Scoped(last.tenant, last.subscriber.username))

\* The rows of a table that are not rows of the given kind.
RowsBeside(d, t, w) == DeleteRows(d[t], w)

\* C28: after enable(tenant, subscriber) for a subscriber with a plan, the
\* username has no Auth-Type row and has a group-membership row; if a
\* membership row already existed it is left unchanged (not re-pointed, not
\* duplicated), otherwise one row for "{tenant}_{planId}" at priority 1 is
\* created; calling enable twice leaves the same rows as calling it once.
C28_EnableWithPlan ==
    (last.op = "enable" /\ TruthyStr(last.subscriber.planId)) =>
        LET u      == Scoped(last.tenant, last.subscriber.username)
            before == MatchingRows(pre["radusergroup"], [username |-> u])
            after  == MatchingRows(db["radusergroup"], [username |-> u])
        IN  /\ RowCount(db, "radcheck", [attribute |-> "Auth-Type", username |-> u]) = 0
            /\ after # EmptyBag
            /\ before # EmptyBag => after = before
            /\ before = EmptyBag =>
                  after = SetToBag({[groupname |-> Scoped(last.tenant, last.subscriber.planId[1]),
                                     priority |-> 1, username |-> u]})
            /\ RunTx(EnableSubscriberProg(last.tenant, last.subscriber), db) = db

\* An enable for a subscriber with plan q has run on a disabled username
\* that was mapped to the group of plan p.
C28_Witness ==
    /\ last.op = "enable"
    /\ last.subscriber.planId = Some(PlanQ)
    /\ HasReject(pre, Scoped(last.tenant, last.subscriber.username))
    /\ MatchingRows(pre["radusergroup"],
                    [username |-> Scoped(last.tenant, last.subscriber.username)])
          = SetToBag({[groupname |-> Scoped(last.tenant, PlanP), priority |-> 1,
                       username |-> Scoped(last.tenant, last.subscriber.username)]})

\* C29: disable(tenant, username) leaves the username's password, expiration
\* and device-binding check rows and all its reply rows unchanged; it changes
\* only the Auth-Type check row and the membership rows of that username.
C29_DisableFrame ==
    last.op = "disable" =>
        LET u == Scoped(last.tenant, last.username)
        IN  /\ \A a \in {"Cleartext-Password", "Expiration", "Calling-Station-Id"} :
                  MatchingRows(db["radcheck"], [attribute |-> a, username |-> u])
                    = MatchingRows(pre["radcheck"], [attribute |-> a, username |-> u])
            /\ MatchingRows(db["radreply"], [username |-> u])
                  = MatchingRows(pre["radreply"], [username |-> u])
            /\ RowsBeside(db, "radcheck", [attribute |-> "Auth-Type", username |-> u])
                  = RowsBeside(pre, "radcheck", [attribute |-> "Auth-Type", username |-> u])
            /\ RowsBeside(db, "radusergroup", [username |-> u])
                  = RowsBeside(pre, "radusergroup", [username |-> u])
            /\ \A t \in Tables \ {"radcheck", "radusergroup"} : db[t] = pre[t]

\* A disable has run on a username that held a password, an expiration, a
\* device binding, a reply row and a membership row.
C29_Witness ==
    /\ last.op = "disable"
    /\ \A a \in {"Cleartext-Password", "Expiration", "Calling-Station-Id"} :
          RowCount(pre, "radcheck",
                   [attribute |-> a, username |-> Scoped(last.tenant, last.username)]) = 1
    /\ RowCount(pre, "radreply", [username |-> Scoped(last.tenant, last.username)]) = 1
    /\ RowCount(pre, "radusergroup", [username |-> Scoped(last.tenant, last.username)]) = 1
    /\ HasReject(db, Scoped(last.tenant, last.username))

\* C30: syncAuth called with a password leaves exactly one password check
\* row for the username holding the supplied value; syncAuth called without
\* a password leaves the existing password row unchanged; in both cases
\* Auth-Type rows and membership rows are unchanged.
C30_SyncAuthPasswordAndFrame ==
    last.op = "syncAuth" =>
        LET u == Scoped(last.tenant, last.subscriber.username)
            w == [attribute |-> "Cleartext-Password", username |-> u]
        IN  /\ TruthyStr(last.password) =>
                  MatchingRows(db["radcheck"], w)
                    = SetToBag({[attribute |-> "Cleartext-Password", op |-> ":=",
                                 username |-> u, value |-> last.password[1]]})
            /\ ~TruthyStr(last.password) =>
                  MatchingRows(db["radcheck"], w) = MatchingRows(pre["radcheck"], w)
            /\ MatchingRows(db["radcheck"], [attribute |-> "Auth-Type"])
                  = MatchingRows(pre["radcheck"], [attribute |-> "Auth-Type"])
            /\ db["radusergroup"] = pre["radusergroup"]

\* A syncAuth with a new password has run on a disabled username that held
\* another password.
C30_Witness ==
    /\ last.op = "syncAuth"
    /\ last.password = Some(Pw2)
    /\ HasReject(pre, Scoped(last.tenant, last.subscriber.username))
    /\ RowCount(pre, "radcheck",
                [attribute |-> "Cleartext-Password",
                 username |-> Scoped(last.tenant, last.subscriber.username),
                 value |-> Pw1]) = 1

----------------------------------------------------------------------------
(* Properties of the expiration, device-binding and reply rows, and of the *)
(* teardown of a username                                                   *)

\* The string has no lower-case letter and differs from the other only where
\* the other has the lower-case form of its letter.
IsUpperCased(value, given) ==
    /\ Len(value) = Len(given)
    /\ \A i \in 1..Len(given) :
          /\ \A j \in 1..Len(LowerAlphabet) : value[i] # LowerAlphabet[j]
          /\ \/ value[i] = given[i]
             \/ \E j \in 1..Len(LowerAlphabet) :
                   given[i] = LowerAlphabet[j] /\ value[i] = UpperAlphabet[j]

\* C31: after syncAuth or enable for a subscriber, an expiration check row
\* exists for the username if and only if the subscriber has an expiry date,
\* and a device-binding check row exists if and only if the subscriber has a
\* MAC address, its value being the MAC upper-cased; a row left from an
\* earlier expiry or MAC is removed when the field is now absent.
C31_ExpirationAndBindingFollowSubscriber ==
    last.op \in {"syncAuth", "enable"} =>
        LET u      == Scoped(last.tenant, last.subscriber.username)
            expiry == MatchingRows(db["radcheck"], [attribute |-> "Expiration", username |-> u])
            mac    == MatchingRows(db["radcheck"],
                                   [attribute |-> "Calling-Station-Id", username |-> u])
        IN  /\ (expiry # EmptyBag) <=> (last.subscriber.expiryDate # Null)
            /\ (mac # EmptyBag) <=> TruthyStr(last.subscriber.macAddress)
            /\ BagCardinality(expiry) <= 1
            /\ BagCardinality(mac) <= 1
            /\ \A r \in BagToSet(expiry) :
                  r.value = formatRadiusExpiration(last.subscriber.expiryDate[1])
            /\ \A r \in BagToSet(mac) :
                  IsUpperCased(r.value, last.subscriber.macAddress[1])

\* A syncAuth for a subscriber with a MAC address and no expiry date has run
\* on a username that held an expiration row and no device binding: the
\* expiration row is gone and the binding holds the MAC in upper case.
C31_Witness ==
    /\ last.op = "syncAuth"
    /\ last.subscriber.expiryDate = Null
    /\ last.subscriber.macAddress = Some(Mac1)
    /\ RowCount(pre, "radcheck",
                [attribute |-> "Expiration",
                 username |-> Scoped(last.tenant, last.subscriber.username)]) = 1
    /\ RowCount(pre, "radcheck",
                [attribute |-> "Calling-Station-Id",
                 username |-> Scoped(last.tenant, last.subscriber.username)]) = 0
    /\ RowCount(db, "radcheck",
                [attribute |-> "Calling-Station-Id",
                 username |-> Scoped(last.tenant, last.subscriber.username),
                 value |-> <<"A","A",":","0","1",":","B","C">>]) = 1

\* The tables that hold the rows of a username.
UserTables == {"radcheck", "radreply", "radusergroup"}

\* C32: after removeAuth(tenant, username) the username has no check row,
\* no reply row and no group-membership row; calling removeAuth on a
\* username with no rows succeeds and changes nothing.
C32_RemoveAuthTearsDown ==
    last.op = "removeAuth" =>
        LET u == Scoped(last.tenant, last.username)
        IN  /\ \A t \in UserTables : RowCount(db, t, [username |-> u]) = 0
            /\ (\A t \in UserTables : RowCount(pre, t, [username |-> u]) = 0) => db = pre

\* A removeAuth has run on a username that held check rows, a reply row and
\* a membership row.
C32_Witness ==
    /\ last.op = "removeAuth"
    /\ RowCount(pre, "radcheck", [username |-> Scoped(last.tenant, last.username)]) >= 2
    /\ RowCount(pre, "radreply", [username |-> Scoped(last.tenant, last.username)]) = 1
    /\ RowCount(pre, "radusergroup", [username |-> Scoped(last.tenant, last.username)]) = 1

\* C33: after any sequence of syncReplyAttributes and removeAuth calls the
\* reply table holds at most one row per (username, attribute), and after
\* syncReplyAttributes(tenant, subscriber) a static-address reply row exists
\* for the username if and only if the subscriber has a static address,
\* carrying that address.
C33_OneReplyRowPerAttribute ==
    /\ \A r \in BagToSet(db["radreply"]) :
          RowCount(db, "radreply", [attribute |-> r.attribute, username |-> r.username]) <= 1
    /\ last.op = "syncReply" =>
          LET u    == Scoped(last.tenant, last.subscriber.username)
              rows == MatchingRows(db["radreply"],
                                   [attribute |-> "Framed-IP-Address", username |-> u])
          IN  IF TruthyStr(last.subscriber.staticIp)
              THEN rows = SetToBag({[attribute |-> "Framed-IP-Address", op |-> ":=",
                                     username |-> u,
                                     value |-> last.subscriber.staticIp[1]]})
              ELSE rows = EmptyBag

\* A syncReplyAttributes with a static address has run on a username that
\* already held a static-address row.
C33_Witness ==
    /\ last.op = "syncReply"
    /\ last.subscriber.staticIp = Some(Ip1)
    /\ RowCount(pre, "radreply",
                [attribute |-> "Framed-IP-Address",
                 username |-> Scoped(last.tenant, last.subscriber.username)]) = 1
    /\ RowCount(db, "radreply",
                [username |-> Scoped(last.tenant, last.subscriber.username)]) = 1

\* C34: every subscriber-level operation (syncAuth, enable, disable,
\* syncPlan, syncReplyAttributes, removeAuth) for username u leaves the
\* check, reply and membership rows of every other username unchanged, and
\* syncPlanBandwidth for one plan leaves the group-check and group-reply rows
\* of every other group unchanged.
C34_OtherNamesUntouched ==
    /\ last.op \in {"syncAuth", "enable", "syncReply"} =>
          \A t \in UserTables :
              RowsBeside(db, t, [username |-> Scoped(last.tenant, last.subscriber.username)])
                = RowsBeside(pre, t, [username |-> Scoped(last.tenant, last.subscriber.username)])
    /\ last.op \in {"disable", "syncPlan", "removeAuth"} =>
          \A t \in UserTables :
              RowsBeside(db, t, [username |-> Scoped(last.tenant, last.username)])
                = RowsBeside(pre, t, [username |-> Scoped(last.tenant, last.username)])
    /\ last.op = "syncPlanBandwidth" =>
          \A t \in {"radgroupcheck", "radgroupreply"} :
              RowsBeside(db, t, [groupname |-> Scoped(last.tenant, last.plan.id)])
                = RowsBeside(pre, t, [groupname |-> Scoped(last.tenant, last.plan.id)])

\* A removeAuth has run for one username while another held check rows, a
\* reply row and a membership row, and both plan groups were synced.
C34_Witness ==
    /\ last.op = "removeAuth"
    /\ last.username = UserX
    /\ \A t \in UserTables :
          /\ RowCount(pre, t, [username |-> Scoped(last.tenant, UserX)]) >= 1
          /\ RowCount(db, t, [username |-> Scoped(last.tenant, UserXY)]) >= 1
    /\ \A g \in {PlanP, PlanQ} :
          RowCount(db, "radgroupreply", [groupname |-> Scoped(last.tenant, g)]) >= 1

----------------------------------------------------------------------------
(* Properties of the handlers followed step by step *)

\* C35: the Device Control Client never waits on a network acknowledgment
\* while a database transaction is open: in disconnectAllSessions the
\* active-session lookup has completed before the first disconnect request
\* is sent, and no database access happens between sending a request and
\* receiving its outcome.
C35_NoDatabaseWhileWaiting ==
    \A p \in Callers :
        task[p].op = "disconnectAll" =>
            LET events == task[p].log
            IN  /\ \A k \in 1..Len(events) :
                      /\ events[k] \in {"lookup", "send", "outcome"}
                      /\ events[k] = "lookup" <=> k = 1
                      /\ (events[k] = "send" /\ k < Len(events)) => events[k + 1] = "outcome"
                /\ task[p].at = "waiting" =>
                      /\ events[Len(events)] = "send"
                      /\ \A c \in Conns : pc[c] = 0

\* The handler has returned after two requests, one acknowledged and one
\* not, while the daemon closed one of the two sessions after the lookup.
C35_Witness ==
    /\ task["p1"].op = "disconnectAll"
    /\ task["p1"].at = "returned"
    /\ task["p1"].log = <<"lookup", "send", "outcome", "send", "outcome">>
    /\ task["p1"].ret = Returns(1)
    /\ Cardinality(UserActiveSessions(db, task["p1"].tenant, task["p1"].username)) = 1

\* The sequence lists each row of the set once, most recent start first.
ListsNewestFirst(rows, set) ==
    /\ Len(rows) = Cardinality(set)
    /\ {rows[i] : i \in 1..Len(rows)} = set
    /\ \A i, j \in 1..Len(rows) : i < j => rows[i].acctstarttime >= rows[j].acctstarttime

\* C36: activeSessions(tenant, username) returns exactly the accounting
\* records with username "{tenant}_{username}" and null stop-time, and
\* onlineUsers(tenant) exactly the records whose username starts with
\* "{tenant}_" and whose stop-time is null, both ordered by most recent start
\* first; a record closed by cleanupStale no longer appears in either.
C36_OpenSessionsOnly ==
    /\ (last.op = "getUserActiveSessions" /\ ret.kind = "returned") =>
          ListsNewestFirst(ret.value,
              {r \in AcctRows(pre) : /\ r.username = Scoped(last.tenant, last.username)
                                     /\ r.acctstoptime = Null})
    /\ (last.op = "getOnlineUsers" /\ ret.kind = "returned") =>
          ListsNewestFirst(ret.value,
              {r \in AcctRows(pre) :
                  /\ Len(r.username) > Len(last.tenant)
                  /\ SubSeq(r.username, 1, Len(last.tenant) + 1) = last.tenant \o <<"_">>
                  /\ r.acctstoptime = Null})
    /\ (last.op \in {"getUserActiveSessions", "getOnlineUsers"} /\ ret.kind = "returned") =>
          \A i \in 1..Len(ret.value) : ret.value[i].acctterminatecause = <<>>

\* activeSessions has returned the one open session of a username whose
\* other, older session was closed by the sweep.
C36_Witness ==
    /\ last.op = "getUserActiveSessions"
    /\ ret.kind = "returned"
    /\ Len(ret.value) = 1
    /\ \E r \in AcctRows(db) :
          /\ r.username = Scoped(last.tenant, last.username)
          /\ r.acctstoptime # Null
          /\ r.acctterminatecause = <<"Stale-Session">>
          /\ r.acctstarttime < ret.value[1].acctstarttime

\* C37: removePlanBandwidth(tenant, planId) deletes every group-reply row of
\* group "{tenant}_{planId}" and leaves that group's group-check rows (the
\* Simultaneous-Use row written by syncPlanBandwidth) and all membership rows
\* unchanged.
C37_RemovePlanBandwidthFrame ==
    last.op = "removePlanBandwidth" =>
        LET g == Scoped(last.tenant, last.planId)
        IN  /\ RowCount(db, "radgroupreply", [groupname |-> g]) = 0
            /\ MatchingRows(db["radgroupcheck"], [groupname |-> g])
                  = MatchingRows(pre["radgroupcheck"], [groupname |-> g])
            /\ db["radusergroup"] = pre["radusergroup"]

\* A removePlanBandwidth has run on a group that held reply rows and the
\* Simultaneous-Use row, with a username mapped to it.
C37_Witness ==
    /\ last.op = "removePlanBandwidth"
    /\ RowCount(pre, "radgroupreply", [groupname |-> Scoped(last.tenant, last.planId)]) >= 1
    /\ RowCount(db, "radgroupcheck",
                [attribute |-> "Simultaneous-Use",
                 groupname |-> Scoped(last.tenant, last.planId)]) = 1
    /\ RowCount(db, "radusergroup", [groupname |-> Scoped(last.tenant, last.planId)]) = 1

\* The successful results of the caller's completed calls.
Successes(p) == {k \in 1..Len(task[p].done) : task[p].done[k].success}

\* C38: in any interleaving of redeemVoucher calls for the same tenant and
\* code, at most one call returns success: a voucher moves from GENERATED or
\* SOLD to REDEEMED once, and a REDEEMED voucher is never redeemed again.
C38_VoucherRedeemedOnce ==
    \A p, q \in Callers :
        \A i \in Successes(p), j \in Successes(q) :
            /\ (task[p].done[i].voucher = task[q].done[j].voucher) => (p = q /\ i = j)
            /\ task[p].done[i].was \subseteq {"GENERATED", "SOLD"}

\* The answers of verifyOtp that accepted the record, over all callers.
Acceptances(id) ==
    {pk \in Callers \X (1..MaxCalls) :
        /\ pk[2] <= Len(task[pk[1]].done)
        /\ task[pk[1]].done[pk[2]].success
        /\ task[pk[1]].done[pk[2]].otp = id}

\* C39: for one OTP record, however the verifyOtp calls interleave, at most
\* OTP_MAX_ATTEMPTS wrong codes get the "Invalid OTP" answer, no call that
\* began after that many wrong answers is accepted, and the record is
\* accepted at most once.
C39_OtpAttemptsBounded ==
    \A id \in OtpIds :
        /\ Cardinality(WrongAnswers(id)) <= OTP_MAX_ATTEMPTS
        /\ Cardinality(Acceptances(id)) <= 1
        /\ \A pk \in Acceptances(id) :
              task[pk[1]].done[pk[2]].seen[id] < OTP_MAX_ATTEMPTS

====
